---- MODULE Spec2Model ----
(***************************************************************************)
(* Vela native runtime: the garbage collector (gc.c), the reactive signal  *)
(* graph (signals.c) and the actor system (actors.c).                      *)
(*                                                                         *)
(* Each subsystem is a state machine over its own variables; SpecGC,       *)
(* SpecSignals and SpecActors run one subsystem and leave the others       *)
(* unchanged.  SpecMessaging is the actor system short of actors_shutdown; *)
(* FairActors adds the fairness the thread scheduler gives.  SpecRoots and *)
(* SpecDependents run the calls that edit the root array and the           *)
(* dependents lists, SpecRegistry the actor registry calls made by one     *)
(* thread on a system that is not started, SpecLifecycle the init and      *)
(* shutdown calls of the heap and of the signals.                          *)
(***************************************************************************)
EXTENDS Integers, Sequences, FiniteSets, TLC

VARIABLES
    gc_heap,      \* static gc_heap_t* gc_heap (gc.c:20); .init = FALSE is NULL
    gc_mem,       \* the gc_header_t records written into the arena, by address
    gc_stats,     \* static gc_stats_t gc_stats (gc.c:21)
    gc_ub,        \* a header was written over another header or outside the arena
    gc_last,      \* the last gc call: name, argument, result, object_count before
    signals_state,\* static signals_state_t* signals_state (signals.c:21)
    sig,          \* the vela_signal_t / vela_computed_t structs, by handle
    sig_last,     \* the last signal call: name, argument, result
    actor_system, \* static vela_actor_system_t* actor_system (actors.c:21)
    actor,        \* the vela_actor_t structs, by handle (allocation order)
    mq,           \* the message_queue_t of each actor, by the actor's handle
    ctl,          \* the thread that calls the lifecycle API, and where it is
    sched,        \* the scheduler thread: pc, loop index, actor, message
    worker,       \* the worker threads: how many run, how many have exited
    snd,          \* the calls of actor_send in progress, by envelope
    send_last,    \* the last actor_send that returned, and what it returned
    sent,         \* the number of envelopes passed to actor_send so far
    accepted,     \* per actor, the envelopes enqueued, in enqueue order
    delivered,    \* per actor, the messages its behaviour was called with
    released,     \* per envelope, how many times the runtime has freed it
    act_last,     \* the last registry call made on its own: name, argument, result
    act_config,   \* the actor_system_config_t the running actors_init used
    act_born,     \* the number of actor structs allocated before that call
    object,       \* the slot table of the vela_object_t under test (runtime.c)
    obj_last,     \* the last object call: name, key, value, result
    envelope      \* the vela_message_t locals of vela_send_message (runtime.c:342)

gcvars == <<gc_heap, gc_mem, gc_stats, gc_ub, gc_last>>
sigvars == <<signals_state, sig, sig_last>>
objvars == <<object, obj_last>>
regvars == <<act_last, act_config, act_born>>
actvars == <<actor_system, actor, mq, ctl, sched, worker, snd, send_last, sent,
            accepted, delivered, released, regvars>>

NULL == 0

(***************************************************************************)
(* Bounds.  size_t and pointers are WordBits wide; the header size, the    *)
(* arena address and the arena sizes are scaled to that width.             *)
(***************************************************************************)
WordBits == 5
Word == 2 ^ WordBits
HeaderSize == 2
HeapStart == 8
SmallHeap == 6
LargeHeap == 9
MaxCollections == 2
MaxAllocs == 3
MaxRoots == 2
ForeignPtr == 30
\* gc_heap->root_capacity = 64, scaled so that the root array has to grow
InitialRootCapacity == 1

GC_FLAG_MARKED == 1
GC_FLAG_ARRAY == 4

\* flags & GC_FLAG_MARKED
IsMarked(flags) == flags % 2 = 1
\* flags |= GC_FLAG_MARKED
SetMarked(flags) == IF IsMarked(flags) THEN flags ELSE flags + GC_FLAG_MARKED
\* flags &= ~GC_FLAG_MARKED
ClearMarked(flags) == IF IsMarked(flags) THEN flags - GC_FLAG_MARKED ELSE flags

NoHeap ==
    [init |-> FALSE, heap_start |-> NULL, heap_end |-> NULL, heap_size |-> 0,
     free_ptr |-> NULL, objects |-> NULL, object_count |-> 0,
     roots |-> <<>>, root_capacity |-> 0, gc_running |-> FALSE]

NoMem == [a \in {} |-> 0]

ZeroStats ==
    [heap_size |-> 0, used_bytes |-> 0, free_bytes |-> 0, object_count |-> 0,
     collection_count |-> 0, total_allocated |-> 0, total_collected |-> 0]

\* the live list as the sequence of header addresses reached from head
RECURSIVE ListFrom(_, _)
ListFrom(mem, cur) ==
    IF cur = NULL THEN <<>> ELSE <<cur>> \o ListFrom(mem, mem[cur].next)

SeqToSet(s) == {s[i] : i \in 1..Len(s)}

\* the pointer gc_alloc returned for the header at address hd
PayloadOf(hd) == (hd + HeaderSize) % Word

gc_is_heap_ptr(heap, ptr) ==
    IF ~heap.init \/ ptr = NULL THEN FALSE
    ELSE ptr >= heap.heap_start /\ ptr < heap.heap_end

gc_get_header(heap, ptr) ==
    IF ~gc_is_heap_ptr(heap, ptr) THEN NULL
    ELSE (ptr + Word - HeaderSize) % Word

gc_mark_object(g, ptr) ==
    IF ptr = NULL \/ ~gc_is_heap_ptr(g.heap, ptr) THEN g
    ELSE LET header == gc_get_header(g.heap, ptr) IN
         IF header = NULL \/ IsMarked(g.mem[header].flags) THEN g
         ELSE [g EXCEPT !.mem[header].flags = SetMarked(@)]

RECURSIVE ClearMarks(_, _)
ClearMarks(mem, current) ==
    IF current = NULL THEN mem
    ELSE ClearMarks([mem EXCEPT ![current].flags = ClearMarked(@)],
                    mem[current].next)

RECURSIVE MarkRoots(_, _)
MarkRoots(g, i) ==
    IF i > Len(g.heap.roots) THEN g
    ELSE IF g.heap.roots[i] # NULL
         THEN MarkRoots(gc_mark_object(g, g.heap.roots[i]), i + 1)
         ELSE MarkRoots(g, i + 1)

gc_mark(g) ==
    IF ~g.heap.init THEN g
    ELSE MarkRoots([g EXCEPT !.mem = ClearMarks(g.mem, g.heap.objects)], 1)

\* SweepFrom, but handing the unlinked object's bytes back to the statistics
RECURSIVE SweepFromReclaiming(_, _, _, _)
SweepFromReclaiming(g, prev, header, collected_bytes) ==
    IF header = NULL
    THEN [g EXCEPT !.stats.total_collected = (@ + collected_bytes) % Word]
    ELSE IF ~IsMarked(g.mem[header].flags)
         THEN LET nxt == g.mem[header].next
                  total_size == (HeaderSize + g.mem[header].size) % Word
                  unlinked == IF prev = NULL
                              THEN [g EXCEPT !.heap.objects = nxt]
                              ELSE [g EXCEPT !.mem[prev].next = nxt]
                  counted == [unlinked EXCEPT
                                !.heap.object_count = (@ + Word - 1) % Word,
                                !.stats.free_bytes = (@ + total_size) % Word,
                                !.stats.used_bytes = (@ + Word - total_size) % Word]
              IN SweepFromReclaiming(counted, prev, nxt,
                           (collected_bytes + g.mem[header].size) % Word)
         ELSE SweepFromReclaiming(g, header, g.mem[header].next, collected_bytes)

\* prev = NULL stands for &gc_heap->objects, otherwise for &prev->next
RECURSIVE SweepFrom(_, _, _, _)
SweepFrom(g, prev, header, collected_bytes) ==
    IF header = NULL
    THEN [g EXCEPT !.stats.total_collected = (@ + collected_bytes) % Word]
    ELSE IF ~IsMarked(g.mem[header].flags)
         THEN LET nxt == g.mem[header].next
                  unlinked == IF prev = NULL
                              THEN [g EXCEPT !.heap.objects = nxt]
                              ELSE [g EXCEPT !.mem[prev].next = nxt]
                  counted == [unlinked EXCEPT
                                !.heap.object_count = (@ + Word - 1) % Word]
              IN SweepFrom(counted, prev, nxt,
                           (collected_bytes + g.mem[header].size) % Word)
         ELSE SweepFrom(g, header, g.mem[header].next, collected_bytes)

gc_sweep(g) ==
    IF ~g.heap.init THEN g ELSE SweepFrom(g, NULL, g.heap.objects, 0)

gc_collect(g) ==
    IF ~g.heap.init \/ g.heap.gc_running THEN g
    ELSE LET started == [g EXCEPT !.heap.gc_running = TRUE]
             swept == gc_sweep(gc_mark(started))
         IN [swept EXCEPT !.heap.gc_running = FALSE,
                          !.stats.collection_count = (@ + 1) % Word]

\* (char*)free_ptr + total_size > (char*)heap_end, in WordBits-wide arithmetic
NoRoom(heap, total_size) == (heap.free_ptr + total_size) % Word > heap.heap_end

\* result: the state and the returned pointer
gc_alloc(g, size, flags) ==
    IF ~g.heap.init THEN [g |-> g, ptr |-> NULL]
    ELSE LET total_size == (HeaderSize + size) % Word
             g1 == IF NoRoom(g.heap, total_size) THEN gc_collect(g) ELSE g
         IN IF NoRoom(g1.heap, total_size) THEN [g |-> g1, ptr |-> NULL]
            ELSE LET header == g1.heap.free_ptr
                     rec == [flags |-> flags, size |-> size,
                             next |-> g1.heap.objects]
                     mem2 == [a \in DOMAIN g1.mem \cup {header} |->
                                 IF a = header THEN rec ELSE g1.mem[a]]
                 IN [g |-> [g1 EXCEPT
                              !.heap.free_ptr = (header + total_size) % Word,
                              !.heap.objects = header,
                              !.heap.object_count = (@ + 1) % Word,
                              !.mem = mem2,
                              !.stats.used_bytes = (@ + total_size) % Word,
                              !.stats.free_bytes = (@ + Word - total_size) % Word,
                              !.stats.total_allocated = (@ + size) % Word],
                     ptr |-> (header + HeaderSize) % Word]

\* the header gc_alloc is about to write lies in the arena and on no other header
HeaderWriteDefined(g, header) ==
    /\ header >= g.heap.heap_start
    /\ header + HeaderSize <= g.heap.heap_end
    /\ \A o \in DOMAIN g.mem :
           header + HeaderSize <= o \/ o + HeaderSize <= header

RECURSIVE IndexOf(_, _, _)
IndexOf(s, x, i) ==
    IF i > Len(s) THEN 0 ELSE IF s[i] = x THEN i ELSE IndexOf(s, x, i + 1)

RemoveAt(s, i) == SubSeq(s, 1, i - 1) \o SubSeq(s, i + 1, Len(s))

\* result: the heap and the returned bool (realloc is taken to succeed)
gc_add_root(heap, ptr) ==
    IF ~heap.init \/ ptr = NULL THEN [heap |-> heap, ok |-> FALSE]
    ELSE IF IndexOf(heap.roots, ptr, 1) # 0 THEN [heap |-> heap, ok |-> TRUE]
    ELSE LET grown == IF Len(heap.roots) >= heap.root_capacity
                      THEN [heap EXCEPT !.root_capacity = (@ * 2) % Word]
                      ELSE heap
         IN [heap |-> [grown EXCEPT !.roots = Append(@, ptr)], ok |-> TRUE]

\* gc_remove_root that clears the entry and shifts nothing
RemoveRootNoShift(heap, ptr) ==
    IF ~heap.init \/ ptr = NULL THEN heap
    ELSE LET i == IndexOf(heap.roots, ptr, 1) IN
         IF i = 0 THEN heap ELSE [heap EXCEPT !.roots[i] = NULL]

gc_remove_root(heap, ptr) ==
    IF ~heap.init \/ ptr = NULL THEN heap
    ELSE LET i == IndexOf(heap.roots, ptr, 1) IN
         IF i = 0 THEN heap ELSE [heap EXCEPT !.roots = RemoveAt(@, i)]

gc_init(g, heap_size) ==
    IF g.heap.init THEN [g |-> g, ok |-> FALSE]
    ELSE [g |-> [heap |-> [NoHeap EXCEPT
                     !.init = TRUE,
                     !.heap_start = HeapStart,
                     !.heap_end = (HeapStart + heap_size) % Word,
                     !.heap_size = heap_size,
                     !.free_ptr = HeapStart,
                     !.root_capacity = InitialRootCapacity],
                 mem |-> NoMem,
                 stats |-> [g.stats EXCEPT
                     !.heap_size = heap_size,
                     !.used_bytes = 0,
                     !.free_bytes = heap_size,
                     !.collection_count = 0]],
          ok |-> TRUE]

\* every block gc_shutdown passes to free came from malloc and is freed
\* once: the headers on the live list lie in the arena, and the first one
\* is the arena itself, which is freed again after the loop
ShutdownFreeDefined(g) == g.heap.objects = NULL

\* gc_heap = NULL; the static gc_stats is left as it is
gc_shutdown(g) ==
    IF ~g.heap.init THEN g
    ELSE [heap |-> NoHeap, mem |-> NoMem, stats |-> g.stats]

\* *stats = gc_stats
gc_get_stats(g) == g.stats

GcState == [heap |-> gc_heap, mem |-> gc_mem, stats |-> gc_stats]

GcInitState ==
    /\ gc_heap = NoHeap
    /\ gc_mem = NoMem
    /\ gc_stats = ZeroStats
    /\ gc_ub = FALSE
    /\ gc_last = [op |-> "none", arg |-> 0, ret |-> 0, cnt |-> 0]

GcSet(g, op, arg, ret) ==
    /\ gc_heap' = g.heap
    /\ gc_mem' = g.mem
    /\ gc_stats' = g.stats
    /\ gc_last' = [op |-> op, arg |-> arg, ret |-> ret,
                  cnt |-> gc_heap.object_count]
    /\ UNCHANGED <<sigvars, actvars, objvars, envelope>>

GcInit(heap_size) ==
    /\ ~gc_heap.init /\ ~gc_ub
    /\ GcSet(gc_init(GcState, heap_size).g, "gc_init", heap_size, 1)
    /\ UNCHANGED gc_ub

\* gc_init on any heap
GcInitCall(heap_size) ==
    /\ ~gc_ub
    /\ LET r == gc_init(GcState, heap_size)
       IN GcSet(r.g, "gc_init", heap_size, IF r.ok THEN 1 ELSE 0)
    /\ UNCHANGED gc_ub

\* gc_shutdown on any heap
GcShutdown ==
    /\ ~gc_ub
    /\ IF gc_heap.init /\ ~ShutdownFreeDefined(GcState)
       THEN /\ gc_ub' = TRUE
            /\ gc_last' = [op |-> "gc_shutdown_ub", arg |-> 0, ret |-> 0,
                          cnt |-> gc_heap.object_count]
            /\ UNCHANGED <<gc_heap, gc_mem, gc_stats, sigvars, actvars, objvars, envelope>>
       ELSE /\ GcSet(gc_shutdown(GcState), "gc_shutdown", 0, 0)
            /\ UNCHANGED gc_ub

\* pointers a caller holds: what gc_alloc returned, and one outside the arena
KnownPtrs == {PayloadOf(hd) : hd \in DOMAIN gc_mem} \cup {ForeignPtr}

GcAlloc(size, flags) ==
    /\ gc_heap.init /\ ~gc_ub
    /\ Cardinality(DOMAIN gc_mem) < MaxAllocs
    /\ gc_stats.collection_count < MaxCollections
    /\ LET r == gc_alloc(GcState, size, flags)
           total_size == (HeaderSize + size) % Word
           header == r.g.heap.objects
       IN IF r.ptr # NULL /\ ~HeaderWriteDefined(GcState, header)
          THEN /\ gc_ub' = TRUE
               /\ gc_last' = [op |-> "gc_alloc_ub", arg |-> size, ret |-> r.ptr,
                             cnt |-> gc_heap.object_count]
               /\ UNCHANGED <<gc_heap, gc_mem, gc_stats, sigvars, actvars, objvars, envelope>>
          ELSE /\ GcSet(r.g, "gc_alloc", size, r.ptr)
               /\ UNCHANGED gc_ub

GcCollect ==
    /\ gc_heap.init /\ ~gc_ub
    /\ gc_stats.collection_count < MaxCollections
    /\ GcSet(gc_collect(GcState), "gc_collect", 0, 0)
    /\ UNCHANGED gc_ub

GcAddRoot(ptr) ==
    /\ gc_heap.init /\ ~gc_ub
    /\ Len(gc_heap.roots) < MaxRoots
    /\ LET r == gc_add_root(gc_heap, ptr)
       IN GcSet([GcState EXCEPT !.heap = r.heap], "gc_add_root", ptr,
                IF r.ok THEN 1 ELSE 0)
    /\ UNCHANGED gc_ub

GcRemoveRoot(ptr) ==
    /\ gc_heap.init /\ ~gc_ub
    /\ GcSet([GcState EXCEPT !.heap = gc_remove_root(gc_heap, ptr)],
             "gc_remove_root", ptr, 0)
    /\ UNCHANGED gc_ub

\* small sizes, and the sizes around the points where HeaderSize + size and
\* free_ptr + total_size leave the WordBits-wide range
AllocSizes ==
    {1, 2, 3} \cup {Word - HeapStart - HeaderSize - 1, Word - HeapStart - HeaderSize,
                    Word - HeaderSize - 1, Word - HeaderSize, Word - 1}

GcNext ==
    \/ \E heap_size \in {SmallHeap, LargeHeap} : GcInit(heap_size)
    \/ \E size \in AllocSizes, flags \in {0, GC_FLAG_ARRAY} :
           GcAlloc(size, flags)
    \/ GcCollect
    \/ \E ptr \in KnownPtrs : GcAddRoot(ptr)
    \/ \E ptr \in KnownPtrs : GcRemoveRoot(ptr)


(***************************************************************************)
(* Reactive signals (signals.c).  A handle is the number of the struct in  *)
(* allocation order; vela_gc_alloc, malloc and realloc are taken to        *)
(* succeed.  A compute function is one of a family that reads its inputs   *)
(* through signal_get_value: Twice(src) returns 2 * signal_get_value(src). *)
(***************************************************************************)
MaxSignals == 3
MaxEdges == 2
SignalValues == {1, 5}

InitialSignalCapacity == 64
InitialDependentCapacity == 8

NoSignals ==
    [init |-> FALSE, all_signals |-> <<>>, signal_capacity |-> 0,
     registry_slots |-> 0, dirty_slots |-> 0,
     propagation_running |-> FALSE, dirty_signals |-> <<>>]

NoFn == [kind |-> "none", src |-> NULL]
Twice(src) == [kind |-> "twice", src |-> src]
\* the function that reads no signal and returns 1
One == [kind |-> "one", src |-> NULL]
\* the function that calls signal_set(src, 5) and returns 5
Setter(src) == [kind |-> "set", src |-> src]

\* calls: the computed signals whose compute function the call in progress
\* has invoked, in the order of the invocations
\* nested: one entry for each signal_set a compute function has made in the
\* call in progress: whether a propagation was running, the dirty list before
\* and after the set, the signals whose needs_recompute the set has set, the
\* length of calls before and after it
SigState ==
    [st |-> signals_state, sig |-> sig, calls |-> <<>>, nested |-> <<>>]

signals_init(S) ==
    IF S.st.init THEN [S |-> S, ok |-> FALSE]
    ELSE [S |-> [S EXCEPT !.st = [NoSignals EXCEPT
                     !.init = TRUE,
                     !.signal_capacity = InitialSignalCapacity,
                     !.registry_slots = InitialSignalCapacity,
                     !.dirty_slots = InitialSignalCapacity]],
          ok |-> TRUE]

signals_register_signal(S, signal) ==
    IF ~S.st.init \/ signal = NULL THEN [S |-> S, ok |-> FALSE]
    ELSE LET grown == IF Len(S.st.all_signals) >= S.st.signal_capacity
                      THEN [S EXCEPT
                              !.st.registry_slots = S.st.signal_capacity * 2,
                              !.st.signal_capacity = @ * 2]
                      ELSE S
         IN [S |-> [grown EXCEPT !.st.all_signals = Append(@, signal)],
             ok |-> TRUE]

\* the handle vela_gc_alloc returns for the next struct
NewHandle(S) == Len(S.sig) + 1

signal_create(S, initial_value) ==
    IF ~S.st.init THEN [S |-> S, ret |-> NULL]
    ELSE LET signal == NewHandle(S)
             rec == [value |-> initial_value, dependents |-> <<>>,
                     dependent_capacity |-> InitialDependentCapacity,
                     is_computed |-> FALSE, raw_value |-> initial_value,
                     compute_fn |-> NoFn, needs_recompute |-> FALSE,
                     dependents_freed |-> FALSE]
             S1 == [S EXCEPT !.sig = Append(@, rec)]
         IN [S |-> signals_register_signal(S1, signal).S, ret |-> signal]

\* signal_get_value and computed_recompute call each other through the
\* compute function; both return the state and the value
RECURSIVE signal_get_value(_, _)
RECURSIVE computed_recompute(_, _)
RECURSIVE CallComputeFn(_, _)
RECURSIVE signal_set_value(_, _, _)

CallComputeFn(S, fn) ==
    IF fn.kind = "twice"
    THEN LET r == signal_get_value(S, fn.src)
         IN [S |-> r.S, ret |-> (2 * r.ret) % Word]
    ELSE IF fn.kind = "one" THEN [S |-> S, ret |-> 1]
    ELSE IF fn.kind = "set"
    THEN LET r == signal_set_value(S, fn.src, 5)
             entry == [running |-> S.st.propagation_running,
                       before |-> S.st.dirty_signals,
                       after |-> r.st.dirty_signals,
                       flagged |-> {x \in 1..Len(S.sig) :
                                       /\ r.sig[x].needs_recompute
                                       /\ ~S.sig[x].needs_recompute},
                       calls_before |-> Len(S.calls),
                       calls_after |-> Len(r.calls)]
         IN [S |-> [r EXCEPT !.nested = Append(@, entry)], ret |-> 5]
    ELSE [S |-> S, ret |-> NULL]

\* computed_recompute that leaves needs_recompute as it was
RecomputeKeepFlag(S, computed) ==
    IF computed = NULL \/ S.sig[computed].compute_fn.kind = "none" THEN S
    ELSE LET r == CallComputeFn([S EXCEPT !.calls = Append(@, computed)],
                                S.sig[computed].compute_fn)
         IN [r.S EXCEPT !.sig[computed].value = r.ret]

computed_recompute(S, computed) ==
    IF computed = NULL \/ S.sig[computed].compute_fn.kind = "none" THEN S
    ELSE LET r == CallComputeFn([S EXCEPT !.calls = Append(@, computed)],
                                S.sig[computed].compute_fn)
         IN [r.S EXCEPT !.sig[computed].value = r.ret,
                        !.sig[computed].needs_recompute = FALSE]

\* signal_get_value that returns the stored value of a flagged signal
GetStoredValue(S, signal) ==
    IF signal = NULL THEN [S |-> S, ret |-> NULL]
    ELSE [S |-> S, ret |-> S.sig[signal].value]

signal_get_value(S, signal) ==
    IF signal = NULL THEN [S |-> S, ret |-> NULL]
    ELSE LET S1 == IF S.sig[signal].is_computed /\ S.sig[signal].needs_recompute
                   THEN computed_recompute(S, signal)
                   ELSE S
         IN [S |-> S1, ret |-> S1.sig[signal].value]

computed_create(S, compute_fn) ==
    IF ~S.st.init \/ compute_fn.kind = "none" THEN [S |-> S, ret |-> NULL]
    ELSE LET computed == NewHandle(S)
             rec == [value |-> NULL, dependents |-> <<>>,
                     dependent_capacity |-> InitialDependentCapacity,
                     is_computed |-> TRUE, raw_value |-> NULL,
                     compute_fn |-> compute_fn, needs_recompute |-> TRUE,
                     dependents_freed |-> FALSE]
             S1 == [S EXCEPT !.sig = Append(@, rec)]
             S2 == signals_register_signal(S1, computed).S
         IN [S |-> computed_recompute(S2, computed), ret |-> computed]

\* signal_add_dependent without the search for dependent in the list
AddDependentUnchecked(S, signal, dependent) ==
    IF signal = NULL \/ dependent = NULL THEN [S |-> S, ok |-> FALSE]
    ELSE [S |-> [S EXCEPT !.sig[signal].dependents = Append(@, dependent)],
          ok |-> TRUE]

signal_add_dependent(S, signal, dependent) ==
    IF signal = NULL \/ dependent = NULL THEN [S |-> S, ok |-> FALSE]
    ELSE IF IndexOf(S.sig[signal].dependents, dependent, 1) # 0
    THEN [S |-> S, ok |-> TRUE]
    ELSE LET grown ==
                 IF Len(S.sig[signal].dependents) >= S.sig[signal].dependent_capacity
                 THEN [S EXCEPT !.sig[signal].dependent_capacity = @ * 2]
                 ELSE S
         IN [S |-> [grown EXCEPT !.sig[signal].dependents = Append(@, dependent)],
             ok |-> TRUE]

signals_unregister_signal(S, signal) ==
    IF ~S.st.init \/ signal = NULL THEN S
    ELSE LET i == IndexOf(S.st.all_signals, signal, 1)
         IN IF i = 0 THEN S ELSE [S EXCEPT !.st.all_signals = RemoveAt(@, i)]

\* the struct itself is left to the collector
signal_destroy(S, signal) ==
    IF signal = NULL THEN S
    ELSE [signals_unregister_signal(S, signal) EXCEPT
            !.sig[signal].dependents_freed = TRUE]

\* for (i < signal_count) signal_destroy(all_signals[i]), from index i
RECURSIVE DestroySignalsFrom(_, _)
DestroySignalsFrom(S, i) ==
    IF i > Len(S.st.all_signals) THEN S
    ELSE DestroySignalsFrom(signal_destroy(S, S.st.all_signals[i]), i + 1)

signals_shutdown(S) ==
    IF ~S.st.init THEN S
    ELSE [DestroySignalsFrom(S, 1) EXCEPT !.st = NoSignals]

\* the first occurrence of dependent is removed, the later entries shift down
signal_remove_dependent(S, signal, dependent) ==
    IF signal = NULL \/ dependent = NULL THEN S
    ELSE LET i == IndexOf(S.sig[signal].dependents, dependent, 1)
         IN IF i = 0 THEN S
            ELSE [S EXCEPT !.sig[signal].dependents = RemoveAt(@, i)]

\* signal_mark_dirty(signal) and its loop over signal->dependents from index i
RECURSIVE signal_mark_dirty(_, _)
RECURSIVE MarkDependents(_, _, _)

MarkDependents(S, signal, i) ==
    IF i > Len(S.sig[signal].dependents) THEN S
    ELSE LET dependent == S.sig[signal].dependents[i]
             flagged == IF S.sig[dependent].is_computed
                        THEN [S EXCEPT !.sig[dependent].needs_recompute = TRUE]
                        ELSE S
         IN MarkDependents(signal_mark_dirty(flagged, dependent), signal, i + 1)

\* signal_mark_dirty that appends a signal already in the dirty list again
MarkDirtyAgain(S, signal) ==
    IF signal = NULL \/ ~S.st.init THEN S
    ELSE LET added == [S EXCEPT !.st.dirty_signals = Append(@, signal)]
         IN IF IndexOf(S.st.dirty_signals, signal, 1) # 0 THEN added
            ELSE MarkDependents(added, signal, 1)

signal_mark_dirty(S, signal) ==
    IF signal = NULL \/ ~S.st.init THEN S
    ELSE IF IndexOf(S.st.dirty_signals, signal, 1) # 0 THEN S
    ELSE LET grown == IF Len(S.st.dirty_signals) >= S.st.signal_capacity
                      THEN [S EXCEPT
                              !.st.dirty_slots = S.st.signal_capacity * 2,
                              !.st.signal_capacity = @ * 2]
                      ELSE S
             added == [grown EXCEPT !.st.dirty_signals = Append(@, signal)]
         IN MarkDependents(added, signal, 1)

\* the loop of signals_propagate_changes without the test of needs_recompute
RECURSIVE PropagateAll(_, _)
PropagateAll(S, i) ==
    IF i > Len(S.st.dirty_signals) THEN S
    ELSE LET signal == S.st.dirty_signals[i]
         IN IF signal # NULL /\ S.sig[signal].is_computed
            THEN PropagateAll(computed_recompute(S, signal), i + 1)
            ELSE PropagateAll(S, i + 1)

\* the loop of signals_propagate_changes from index i
RECURSIVE PropagateFrom(_, _)
PropagateFrom(S, i) ==
    IF i > Len(S.st.dirty_signals) THEN S
    ELSE LET signal == S.st.dirty_signals[i]
         IN IF signal # NULL /\ S.sig[signal].is_computed
                /\ S.sig[signal].needs_recompute
            THEN PropagateFrom(computed_recompute(S, signal), i + 1)
            ELSE PropagateFrom(S, i + 1)

signals_propagate_changes(S) ==
    IF ~S.st.init \/ S.st.propagation_running THEN S
    ELSE LET started == [S EXCEPT !.st.propagation_running = TRUE]
             done == PropagateFrom(started, 1)
         IN [done EXCEPT !.st.dirty_signals = <<>>,
                         !.st.propagation_running = FALSE]

\* void: nothing is returned to the caller on either path
signal_set_value(S, signal, value) ==
    IF signal = NULL \/ S.sig[signal].is_computed THEN S
    ELSE LET stored == [S EXCEPT !.sig[signal].value = value,
                                 !.sig[signal].raw_value = value]
         IN signals_propagate_changes(signal_mark_dirty(stored, signal))

SigInitState ==
    /\ signals_state = NoSignals
    /\ sig = <<>>
    /\ sig_last = [op |-> "none", arg |-> 0, ret |-> 0, calls |-> <<>>,
                   nested |-> <<>>]

\* ret is what the call returned: a handle, a value, a bool as 1 or 0, and 0
\* for a void function
SigSet(S, op, arg, ret) ==
    /\ signals_state' = S.st
    /\ sig' = S.sig
    /\ sig_last' = [op |-> op, arg |-> arg, ret |-> ret, calls |-> S.calls,
                    nested |-> S.nested]
    /\ UNCHANGED <<gcvars, actvars, objvars, envelope>>

\* the functions of signals.h that return a status (bool or handle-or-null);
\* the others return void or a value and cannot report a failure
ReturnsStatus(op) ==
    op \in {"signals_init", "signal_create", "computed_create",
            "signal_add_dependent"}

\* the last call told its caller that it failed
Reported == ReturnsStatus(sig_last.op) /\ sig_last.ret = 0

RECURSIVE SumLens(_, _)
SumLens(sg, h) == IF h = 0 THEN 0 ELSE Len(sg[h].dependents) + SumLens(sg, h - 1)

\* number of registered dependency edges
EdgeCount == SumLens(sig, Len(sig))

Handles == 1..Len(sig)

SignalsInit ==
    /\ ~signals_state.init
    /\ SigSet(signals_init(SigState).S, "signals_init", 0, 1)

\* signals_init on any state
SignalsInitCall ==
    /\ ~signals_state.propagation_running
    /\ LET r == signals_init(SigState)
       IN SigSet(r.S, "signals_init", 0, IF r.ok THEN 1 ELSE 0)

\* signals_shutdown on any state
SignalsShutdown ==
    /\ ~signals_state.propagation_running
    /\ SigSet(signals_shutdown(SigState), "signals_shutdown", 0, 0)

SignalCreate(initial_value) ==
    /\ signals_state.init
    /\ Len(sig) < MaxSignals
    /\ LET r == signal_create(SigState, initial_value)
       IN SigSet(r.S, "signal_create", initial_value, r.ret)

ComputedCreate(src) ==
    /\ signals_state.init
    /\ Len(sig) < MaxSignals
    /\ LET r == computed_create(SigState, Twice(src))
       IN SigSet(r.S, "computed_create", src, r.ret)

SignalSet(signal, value) ==
    /\ signals_state.init
    /\ SigSet(signal_set_value(SigState, signal, value), "signal_set",
              signal, 0)

SignalGet(signal) ==
    /\ signals_state.init
    /\ LET r == signal_get_value(SigState, signal)
       IN SigSet(r.S, "signal_get", signal, r.ret)

SignalAddDependent(signal, dependent) ==
    /\ signals_state.init
    /\ EdgeCount < MaxEdges
    /\ LET r == signal_add_dependent(SigState, signal, dependent)
       IN SigSet(r.S, "signal_add_dependent", signal, IF r.ok THEN 1 ELSE 0)

SignalRemoveDependent(signal, dependent) ==
    /\ signals_state.init
    /\ SigSet(signal_remove_dependent(SigState, signal, dependent),
              "signal_remove_dependent", signal, 0)

\* signal_mark_dirty(signal), called directly
SignalMarkDirty(signal) ==
    /\ signals_state.init
    /\ SigSet(signal_mark_dirty(SigState, signal), "signal_mark_dirty",
              signal, 0)

\* signals_propagate_changes(), called directly
SignalsPropagate ==
    /\ signals_state.init
    /\ SigSet(signals_propagate_changes(SigState), "signals_propagate_changes",
              0, 0)

SigNext ==
    \/ SignalsInit
    \/ \E v \in SignalValues : SignalCreate(v)
    \/ \E src \in Handles : ComputedCreate(src)
    \/ \E signal \in Handles, v \in SignalValues : SignalSet(signal, v)
    \/ \E signal \in Handles : SignalGet(signal)
    \/ \E signal \in Handles, dependent \in Handles :
           SignalAddDependent(signal, dependent)
    \/ \E signal \in Handles, dependent \in Handles :
           SignalRemoveDependent(signal, dependent)


(***************************************************************************)
(* Actor system (actors.c).  Threads: ctl calls the lifecycle API, sched   *)
(* runs actor_scheduler, the workers run actor_worker, the senders call    *)
(* actor_send.  A step runs up to the next point where another thread can  *)
(* change what the code reads next: a wait, a blocked lock, or a second    *)
(* read of actor_system->running.  malloc and pthread_create are taken to  *)
(* succeed.  An actor, its mailbox and an envelope are named by the order  *)
(* of their creation; a call of actor_send in progress, and the thread    *)
(* making it, by the envelope it passes.                                   *)
(***************************************************************************)
MaxActors == 2
DefaultMaxMailboxSize == 2
Senders == 1
Workers == 1
MaxMessages == 3
\* the width of uint32_t next_actor_id, scaled
IdBits == 2
\* the vela_actor_t structs allocated in one run of the registry calls
MaxCreates == 5

MsgIds == 1..MaxMessages

\* thread identities, as owners of a mutex and waiters on a condition
NoThread == NULL
SchedThread == MaxMessages + 1

NoSystem ==
    [init |-> FALSE, actors |-> <<>>, actor_capacity |-> 0, worker_count |-> 0,
     next_actor_id |-> 0, running |-> FALSE]

\* static actor_system_config_t default_config, scaled
default_config ==
    [max_actors |-> MaxActors, max_mailbox_size |-> DefaultMaxMailboxSize,
     worker_threads |-> Workers]

\* a configuration that differs from default_config in every field
custom_config ==
    [max_actors |-> MaxActors - 1,
     max_mailbox_size |-> DefaultMaxMailboxSize + 1,
     worker_threads |-> Workers + 1]

\* config == NULL
NoConfig == [max_actors |-> 0, max_mailbox_size |-> 0, worker_threads |-> 0]

NoSend ==
    [message |-> NULL, to |-> NULL, ret |-> FALSE, blocked |-> FALSE,
     live |-> FALSE]

\* pthread_t scheduler_thread of a system that was never started
NoSched == [pc |-> "none", i |-> 0, actor |-> NULL, message |-> NULL]

ActInitState ==
    /\ actor_system = NoSystem
    /\ actor = <<>>
    /\ mq = <<>>
    /\ ctl = [pc |-> "idle", i |-> 0, target |-> NULL, after |-> "idle",
              registered |-> {}]
    /\ sched = NoSched
    /\ worker = [run |-> 0, exited |-> 0]
    /\ snd = <<>>
    /\ send_last = NoSend
    /\ sent = 0
    /\ accepted = <<>>
    /\ delivered = <<>>
    /\ released = [m \in MsgIds |-> 0]
    /\ act_last = [op |-> "none", arg |-> 0, ret |-> 0]
    /\ act_config = NoConfig
    /\ act_born = 0

\* the envelope still holds the vela_message_t that was sent: it is a block
\* of the caller of actor_send, or the local msg of a vela_send_message call
\* that has not returned
EnvelopeValid(message) ==
    message \in DOMAIN envelope => envelope[message].frame

\* free(message) is defined: the envelope is a block from malloc and not
\* the address of a local
EnvelopeReleasable(message) == message \notin DOMAIN envelope

\* free(message): one more release of the envelope
free(rel, message) ==
    IF message \in DOMAIN rel THEN [rel EXCEPT ![message] = @ + 1] ELSE rel

message_queue_empty(queue) == queue.count = 0

\* message_queue_full, with > for >=
QueueOverfull(queue) == queue.count > queue.capacity

message_queue_full(queue) == queue.count >= queue.capacity

message_queue_create(capacity) ==
    [messages |-> [k \in 0..(capacity - 1) |-> NULL], count |-> 0,
     capacity |-> capacity, head |-> 0, tail |-> 0, mutex |-> NoThread,
     not_empty |-> {}, not_full |-> {}, destroyed |-> FALSE]

\* the messages in the queue, oldest first
QueueContents(queue) ==
    [k \in 1..queue.count |->
        queue.messages[(queue.head + k - 1) % queue.capacity]]

\* Enqueue that leaves tail where it was
EnqueueNoAdvance(queue, message) ==
    [queue EXCEPT !.messages[queue.tail] = message,
                  !.count = @ + 1]

\* queue->messages[queue->tail] = message; tail and count advance
Enqueue(queue, message) ==
    [queue EXCEPT !.messages[queue.tail] = message,
                  !.tail = (queue.tail + 1) % queue.capacity,
                  !.count = @ + 1]

\* head and count advance; the message read is queue.messages[queue.head]
Dequeue(queue) ==
    [queue EXCEPT !.head = (queue.head + 1) % queue.capacity,
                  !.count = @ - 1]

Registered == SeqToSet(actor_system.actors)

\* pthread_cond_signal on a condition with the set waiters of blocked threads:
\* the threads it may wake (none if nobody waits)
WakeChoices(waiters) == IF waiters = {} THEN {NoThread} ELSE waiters

\* thread t leaves its wait on not_full and goes back to the loop test
Woken(threads, t) ==
    IF t = NoThread THEN threads
    ELSE [threads EXCEPT ![t].pc = "put"]

\* actors_init past the test of actor_system: the system it builds from
\* config, or from default_config when config is NULL
actors_init(config) ==
    LET c == IF config = NoConfig THEN default_config ELSE config
    IN [NoSystem EXCEPT !.init = TRUE,
                        !.actor_capacity = c.max_actors,
                        !.worker_count = c.worker_threads,
                        !.next_actor_id = 1]

\* actors_init(NULL) on an uninitialised system
ActorsInit ==
    /\ ctl.pc = "idle"
    /\ ~actor_system.init
    /\ actor_system' = actors_init(NoConfig)
    /\ act_config' = default_config
    /\ act_born' = Len(actor)
    /\ UNCHANGED <<actor, mq, ctl, sched, worker, snd, send_last, sent,
                   accepted, delivered, released, act_last>>
    /\ UNCHANGED <<gcvars, sigvars, objvars, envelope>>

ActorsStart ==
    /\ ctl.pc = "idle"
    /\ actor_system.init /\ ~actor_system.running
    /\ actor_system' = [actor_system EXCEPT !.running = TRUE]
    /\ sched' = [pc |-> "for", i |-> 1, actor |-> NULL, message |-> NULL]
    /\ worker' = [run |-> actor_system.worker_count, exited |-> 0]
    /\ UNCHANGED <<actor, mq, ctl, snd, send_last, sent, accepted, delivered,
                   released>>
    /\ UNCHANGED <<gcvars, sigvars, regvars, objvars, envelope>>

\* the sends in progress are no longer sends to a running system
SeeStop ==
    [m \in DOMAIN snd |-> [snd[m] EXCEPT !.live = FALSE]]

\* actors_stop up to the first pthread_join; after: where ctl goes on return;
\* registered: the actors in the registry when actors_shutdown was called
StopBegin(after) ==
    /\ actor_system' = [actor_system EXCEPT !.running = FALSE]
    /\ snd' = SeeStop
    /\ ctl' = [ctl EXCEPT !.pc = "join_sched", !.after = after, !.i = 1,
                          !.registered = IF after = "sd_loop"
                                         THEN Registered ELSE {}]

ActorsStop ==
    /\ ctl.pc = "idle"
    /\ actor_system.init /\ actor_system.running
    /\ StopBegin("idle")
    /\ UNCHANGED <<actor, mq, sched, worker, send_last, sent, accepted,
                   delivered, released>>
    /\ UNCHANGED <<gcvars, sigvars, regvars, objvars, envelope>>

\* pthread_join(scheduler_thread)
JoinScheduler ==
    /\ ctl.pc = "join_sched"
    /\ sched.pc = "exited"
    /\ sched' = [sched EXCEPT !.pc = "joined"]
    /\ ctl' = [ctl EXCEPT !.pc = "join_workers"]
    /\ UNCHANGED <<actor_system, actor, mq, worker, snd, send_last, sent,
                   accepted, delivered, released>>
    /\ UNCHANGED <<gcvars, sigvars, regvars, objvars, envelope>>

\* JoinWorkers that does not wait for the last worker
JoinWorkersEarly ==
    /\ ctl.pc = "join_workers"
    /\ worker.exited + 1 >= actor_system.worker_count
    /\ worker' = [run |-> 0, exited |-> 0]
    /\ ctl' = [ctl EXCEPT !.pc = ctl.after, !.after = "idle"]
    /\ UNCHANGED <<actor_system, actor, mq, sched, snd, send_last, sent,
                   accepted, delivered, released>>
    /\ UNCHANGED <<gcvars, sigvars, regvars, objvars, envelope>>

\* pthread_join of every worker, then actors_stop returns
JoinWorkers ==
    /\ ctl.pc = "join_workers"
    /\ worker.exited = actor_system.worker_count
    /\ worker' = [run |-> 0, exited |-> 0]
    /\ ctl' = [ctl EXCEPT !.pc = ctl.after, !.after = "idle"]
    /\ UNCHANGED <<actor_system, actor, mq, sched, snd, send_last, sent,
                   accepted, delivered, released>>
    /\ UNCHANGED <<gcvars, sigvars, regvars, objvars, envelope>>

\* the registry has room for no further actor, with > for >=
RegistryOverfull == Len(actor_system.actors) > actor_system.actor_capacity

\* actor_system->actor_count >= actor_system->actor_capacity
RegistryFull == Len(actor_system.actors) >= actor_system.actor_capacity

\* return actor_system->next_actor_id++, on a uint32_t
actor_generate_id == actor_system.next_actor_id

\* actor_create past its tests: the struct, its id, its mailbox, the registry
NewActor ==
    LET a == Len(actor) + 1
    IN /\ actor' = Append(actor, [id |-> actor_generate_id,
                                  running |-> TRUE, stopped |-> FALSE,
                                  freed |-> FALSE])
       /\ mq' = Append(mq, message_queue_create(default_config.max_mailbox_size))
       /\ accepted' = Append(accepted, <<>>)
       /\ delivered' = Append(delivered, <<>>)
       /\ UNCHANGED released
       /\ actor_system' = [actor_system EXCEPT
                             !.actors = Append(@, a),
                             !.next_actor_id = (@ + 1) % (2 ^ IdBits)]

\* actor_create with a behaviour, on an initialised system with room
ActorCreate ==
    /\ ctl.pc = "idle"
    /\ actor_system.init
    /\ Len(actor) < MaxActors
    /\ ~RegistryFull
    /\ NewActor
    /\ UNCHANGED <<ctl, sched, worker, snd, send_last, sent>>
    /\ UNCHANGED <<gcvars, sigvars, regvars, objvars, envelope>>

\* actors_shutdown: actors_stop, then the destroy loop from index 0
ActorsShutdown ==
    /\ ctl.pc = "idle"
    /\ actor_system.init
    /\ IF actor_system.running
       THEN StopBegin("sd_loop")
       ELSE /\ ctl' = [ctl EXCEPT !.pc = "sd_loop", !.i = 1,
                                  !.registered = Registered]
            /\ UNCHANGED <<actor_system, snd>>
    /\ UNCHANGED <<actor, mq, sched, worker, send_last, sent, accepted,
                   delivered, released>>
    /\ UNCHANGED <<gcvars, sigvars, regvars, objvars, envelope>>

\* for (i = 0; i < actor_count; i++) actor_destroy(actors[i]); then the frees,
\* the scheduler_thread handle among them
ShutdownLoop ==
    /\ ctl.pc = "sd_loop"
    /\ IF ctl.i <= Len(actor_system.actors)
       THEN LET a == actor_system.actors[ctl.i]
            IN /\ actor' = [actor EXCEPT ![a].running = FALSE,
                                         ![a].stopped = TRUE]
               /\ ctl' = [ctl EXCEPT !.pc = "mqd_check", !.target = a]
               /\ UNCHANGED <<actor_system, sched>>
       ELSE /\ actor_system' = NoSystem
            /\ sched' = NoSched
            /\ ctl' = [ctl EXCEPT !.pc = "idle", !.i = 0, !.target = NULL,
                                  !.registered = {}]
            /\ UNCHANGED actor
    /\ UNCHANGED <<mq, worker, snd, send_last, sent, accepted, delivered,
                   released>>
    /\ UNCHANGED <<gcvars, sigvars, regvars, objvars, envelope>>

\* message_queue_destroy: while (!message_queue_empty(queue)); when the loop
\* ends the queue is destroyed, and actor_destroy unregisters and frees; it
\* returns to the destroy loop of actors_shutdown, or (ctl.i = 0) to the caller
DestroyCheck ==
    /\ ctl.pc = "mqd_check"
    /\ LET a == ctl.target
       IN IF ~message_queue_empty(mq[a])
          THEN /\ ctl' = [ctl EXCEPT !.pc = "mqd_get"]
               /\ UNCHANGED <<actor_system, actor, mq>>
          ELSE /\ mq' = [mq EXCEPT ![a].destroyed = TRUE]
               /\ actor_system' = [actor_system EXCEPT !.actors =
                      LET k == IndexOf(@, a, 1)
                      IN IF k = 0 THEN @ ELSE RemoveAt(@, k)]
               /\ actor' = [actor EXCEPT ![a].freed = TRUE]
               /\ ctl' = IF ctl.i = 0
                         THEN [ctl EXCEPT !.pc = "idle", !.target = NULL]
                         ELSE [ctl EXCEPT !.pc = "sd_loop", !.i = @ + 1,
                                          !.target = NULL]
    /\ UNCHANGED <<sched, worker, snd, send_last, sent, accepted, delivered,
                   released>>
    /\ UNCHANGED <<gcvars, sigvars, regvars, objvars, envelope>>

\* message_queue_get called by message_queue_destroy: the lock, the wait loop
\* (not entered: the queue was seen non-empty and only this thread drains
\* it), the test, and on success the dequeue and free(message)
DestroyGet ==
    /\ ctl.pc = "mqd_get"
    /\ LET a == ctl.target
       IN /\ mq[a].mutex = NoThread
          /\ IF ~actor_system.running \/ message_queue_empty(mq[a])
             THEN UNCHANGED <<mq, snd, released>>
             ELSE \E t \in WakeChoices(mq[a].not_full) :
                    /\ mq' = [mq EXCEPT ![a] = [Dequeue(@) EXCEPT
                                                  !.not_full = @ \ {t}]]
                    /\ snd' = Woken(snd, t)
                    /\ released' = free(released, mq[a].messages[mq[a].head])
    /\ ctl' = [ctl EXCEPT !.pc = "mqd_check"]
    /\ UNCHANGED <<actor_system, actor, sched, worker, send_last, sent,
                   accepted, delivered>>
    /\ UNCHANGED <<gcvars, sigvars, regvars, objvars, envelope>>

(* actor_scheduler *)

\* the for test, the test on the actor and actor_schedule's own test; when
\* the for loop is over, usleep and the while test.  running is cleared at
\* most once while this thread lives, so the tests read it as one.
SchedFor ==
    /\ sched.pc = "for"
    /\ IF sched.i <= Len(actor_system.actors) /\ actor_system.running
       THEN LET a == actor_system.actors[sched.i]
            IN IF actor[a].running /\ ~message_queue_empty(mq[a])
               THEN sched' = [sched EXCEPT !.pc = "get", !.actor = a]
               ELSE sched' = [sched EXCEPT !.i = @ + 1]
       ELSE IF actor_system.running
            THEN sched' = [sched EXCEPT !.i = 1, !.actor = NULL]
            ELSE sched' = [sched EXCEPT !.pc = "exited", !.i = 0,
                                        !.actor = NULL]
    /\ UNCHANGED <<actor_system, actor, mq, ctl, worker, snd, send_last, sent,
                   accepted, delivered, released>>
    /\ UNCHANGED <<gcvars, sigvars, regvars, objvars, envelope>>

\* the actor actor_schedule was called with, and its mailbox, still exist
SchedDefined == ~actor[sched.actor].freed

\* message_queue_get: lock; wait while empty and running; fail if stopped or
\* empty; otherwise dequeue, signal not_full, unlock
SchedGet ==
    /\ sched.pc = "get"
    /\ SchedDefined
    /\ LET a == sched.actor
       IN /\ mq[a].mutex = NoThread
          /\ IF message_queue_empty(mq[a]) /\ actor_system.running
             THEN /\ mq' = [mq EXCEPT ![a].not_empty = @ \cup {SchedThread}]
                  /\ sched' = [sched EXCEPT !.pc = "get_wait"]
                  /\ UNCHANGED snd
             ELSE IF ~actor_system.running \/ message_queue_empty(mq[a])
             THEN /\ sched' = [sched EXCEPT !.pc = "for", !.i = @ + 1,
                                            !.actor = NULL]
                  /\ UNCHANGED <<mq, snd>>
             ELSE \E t \in WakeChoices(mq[a].not_full) :
                    /\ mq' = [mq EXCEPT ![a] = [Dequeue(@) EXCEPT
                                                  !.not_full = @ \ {t}]]
                    /\ sched' = [sched EXCEPT
                                   !.pc = "behavior",
                                   !.message = mq[a].messages[mq[a].head]]
                    /\ snd' = Woken(snd, t)
    /\ UNCHANGED <<actor_system, actor, ctl, worker, send_last, sent,
                   accepted, delivered, released>>
    /\ UNCHANGED <<gcvars, sigvars, regvars, objvars, envelope>>

\* actor->behavior(actor, message); free(message); actor_schedule returns
\* and the for loop goes on
SchedBehavior ==
    /\ sched.pc = "behavior"
    /\ SchedDefined
    /\ EnvelopeReleasable(sched.message)
    /\ delivered' = [delivered EXCEPT ![sched.actor] = Append(@, sched.message)]
    /\ released' = free(released, sched.message)
    /\ sched' = [sched EXCEPT !.pc = "for", !.i = @ + 1, !.actor = NULL,
                              !.message = NULL]
    /\ UNCHANGED <<actor_system, actor, mq, ctl, worker, snd, send_last, sent,
                   accepted>>
    /\ UNCHANGED <<gcvars, sigvars, regvars, objvars, envelope>>

\* a worker that takes a message from a mailbox and runs the behaviour on it
WorkerDelivers ==
    /\ worker.run > 0
    /\ \E a \in Registered :
          /\ ~message_queue_empty(mq[a])
          /\ mq[a].mutex = NoThread
          /\ mq' = [mq EXCEPT ![a] = Dequeue(@)]
          /\ delivered' = [delivered EXCEPT
                             ![a] = Append(@, mq[a].messages[mq[a].head])]
    /\ UNCHANGED <<actor_system, actor, ctl, sched, worker, snd, send_last,
                   sent, accepted, released>>
    /\ UNCHANGED <<gcvars, sigvars, regvars, objvars, envelope>>

(* actor_worker: while (system->running) usleep; the worker threads run
   the same code on no data of their own and are counted, not named *)
WorkerExit ==
    /\ worker.run > 0
    /\ ~actor_system.running
    /\ worker' = [run |-> worker.run - 1, exited |-> worker.exited + 1]
    /\ UNCHANGED <<actor_system, actor, mq, ctl, sched, snd, send_last, sent,
                   accepted, delivered, released>>
    /\ UNCHANGED <<gcvars, sigvars, regvars, objvars, envelope>>

(* actor_send / message_queue_put *)

InFlight == DOMAIN snd

\* actor_send(actor, message) on a registered actor with a fresh envelope:
\* the null tests pass and message_queue_put is entered
ActorSend(a) ==
    /\ Cardinality(InFlight) < Senders
    /\ sent < MaxMessages
    /\ actor_system.init /\ a \in Registered
    /\ snd' = [m \in InFlight \cup {sent + 1} |->
                 IF m \in InFlight THEN snd[m]
                 ELSE [pc |-> "put", to |-> a, live |-> actor_system.running,
                       blocked |-> FALSE]]
    /\ sent' = sent + 1
    /\ UNCHANGED <<actor_system, actor, mq, ctl, sched, worker, send_last,
                   accepted, delivered, released>>
    /\ UNCHANGED <<gcvars, sigvars, regvars, objvars>>

\* actor_send called with an envelope its caller got from malloc
Send(a) == ActorSend(a) /\ UNCHANGED envelope

\* the structures message_queue_put works on still exist
PutDefined(m) == actor_system.init /\ ~mq[snd[m].to].destroyed

\* message_queue_put returns ret to the caller
Return(m, ret) ==
    /\ snd' = [k \in InFlight \ {m} |-> snd[k]]
    /\ send_last' = [message |-> m, to |-> snd[m].to, ret |-> ret,
                     blocked |-> snd[m].blocked, live |-> snd[m].live]

\* message_queue_put without the test of running after the wait loop
PutFinishUntested(m) ==
    LET a == snd[m].to
    IN /\ mq' = [mq EXCEPT ![a] = [Enqueue(@, m) EXCEPT
                                     !.mutex = NoThread,
                                     !.not_empty = {}]]
       /\ Return(m, TRUE)
       /\ accepted' = [accepted EXCEPT ![a] = Append(@, m)]
       /\ sched' = IF SchedThread \in mq[a].not_empty
                   THEN [sched EXCEPT !.pc = "get"]
                   ELSE sched

\* message_queue_put from if (!actor_system->running) on, the mutex taken:
\* fail, or enqueue, signal not_empty, unlock
PutFinish(m) ==
    LET a == snd[m].to
    IN IF ~actor_system.running
       THEN /\ mq' = [mq EXCEPT ![a].mutex = NoThread]
            /\ Return(m, FALSE)
            /\ UNCHANGED <<sched, accepted>>
       ELSE /\ mq' = [mq EXCEPT ![a] = [Enqueue(@, m) EXCEPT
                                          !.mutex = NoThread,
                                          !.not_empty = {}]]
            /\ Return(m, TRUE)
            /\ accepted' = [accepted EXCEPT ![a] = Append(@, m)]
            /\ sched' = IF SchedThread \in mq[a].not_empty
                        THEN [sched EXCEPT !.pc = "get"]
                        ELSE sched

\* pthread_mutex_lock and the loop test: wait if full and running; if full
\* and stopped leave the loop with the mutex, running is read again next; if
\* not full the loop does not read running and the call runs to its end
Put(m) ==
    /\ m \in InFlight
    /\ snd[m].pc = "put"
    /\ PutDefined(m)
    /\ LET a == snd[m].to
       IN /\ mq[a].mutex = NoThread
          /\ IF message_queue_full(mq[a])
             THEN /\ IF actor_system.running
                     THEN /\ mq' = [mq EXCEPT ![a].not_full = @ \cup {m}]
                          /\ snd' = [snd EXCEPT ![m].pc = "put_wait",
                                                ![m].blocked = TRUE]
                     ELSE /\ mq' = [mq EXCEPT ![a].mutex = m]
                          /\ snd' = [snd EXCEPT ![m].pc = "put_if"]
                  /\ UNCHANGED <<sched, accepted, send_last>>
             ELSE PutFinish(m)
    /\ UNCHANGED <<actor_system, actor, ctl, worker, sent, delivered, released>>
    /\ UNCHANGED <<gcvars, sigvars, regvars, objvars, envelope>>

\* after the loop was left on a stopped system: the second read of running
PutIf(m) ==
    /\ m \in InFlight
    /\ snd[m].pc = "put_if"
    /\ PutDefined(m)
    /\ PutFinish(m)
    /\ UNCHANGED <<actor_system, actor, ctl, worker, sent, delivered, released>>
    /\ UNCHANGED <<gcvars, sigvars, regvars, objvars, envelope>>

\* pthread_cond_wait may return without a signal
SpuriousWake(m) ==
    /\ m \in InFlight
    /\ snd[m].pc = "put_wait"
    /\ PutDefined(m)
    /\ mq' = [mq EXCEPT ![snd[m].to].not_full = @ \ {m}]
    /\ snd' = [snd EXCEPT ![m].pc = "put"]
    /\ UNCHANGED <<actor_system, actor, ctl, sched, worker, send_last, sent,
                   accepted, delivered, released>>
    /\ UNCHANGED <<gcvars, sigvars, regvars, objvars, envelope>>

\* the mailbox or the system was freed under a sender inside
\* message_queue_put: the call may return either result, or never
PutUndefined(m, result) ==
    /\ m \in InFlight
    /\ ~PutDefined(m)
    /\ Return(m, result)
    /\ UNCHANGED <<actor_system, actor, mq, ctl, sched, worker, sent,
                   accepted, delivered, released>>
    /\ UNCHANGED <<gcvars, sigvars, regvars, objvars, envelope>>

(* the registry calls, made by one thread on a system that is not started *)

ActSet(op, arg, ret) == act_last' = [op |-> op, arg |-> arg, ret |-> ret]

\* for (i < actor_count) if (actors[i] != NULL && actors[i]->id == id)
\* return actors[i]; return NULL
actor_find_by_id(system, actors, id) ==
    LET hits == {k \in 1..Len(system.actors) : actors[system.actors[k]].id = id}
    IN IF ~system.init \/ hits = {} THEN NULL
       ELSE system.actors[CHOOSE k \in hits : \A j \in hits : k <= j]

actors_count(system) == IF system.init THEN Len(system.actors) ELSE 0

\* actors_init(config), config NULL or not, on any system
ActorsInitCall(config) ==
    /\ ctl.pc = "idle"
    /\ IF actor_system.init
       THEN /\ ActSet("actors_init", 0, 0)
            /\ UNCHANGED <<actor_system, act_config, act_born>>
       ELSE /\ actor_system' = actors_init(config)
            /\ act_config' = IF config = NoConfig THEN default_config
                             ELSE config
            /\ act_born' = Len(actor)
            /\ ActSet("actors_init", 0, 1)
    /\ UNCHANGED <<actor, mq, ctl, sched, worker, snd, send_last, sent,
                   accepted, delivered, released>>
    /\ UNCHANGED <<gcvars, sigvars, objvars, envelope>>

\* actor_create(behavior, state), behavior NULL or not, on any system
ActorCreateCall(behavior) ==
    /\ ctl.pc = "idle"
    /\ IF ~actor_system.init \/ behavior = NULL \/ RegistryFull
       THEN /\ ActSet("actor_create", behavior, NULL)
            /\ UNCHANGED <<actor_system, actor, mq, accepted, delivered,
                           released>>
       ELSE /\ Len(actor) < MaxCreates
            /\ NewActor
            /\ ActSet("actor_create", behavior, Len(actor) + 1)
    /\ UNCHANGED <<ctl, sched, worker, snd, send_last, sent, act_config,
                   act_born>>
    /\ UNCHANGED <<gcvars, sigvars, objvars, envelope>>

\* actor_destroy(a) on a registered actor, up to message_queue_destroy
ActorDestroy(a) ==
    /\ ctl.pc = "idle"
    /\ actor_system.init
    /\ a \in Registered
    /\ actor' = [actor EXCEPT ![a].running = FALSE, ![a].stopped = TRUE]
    /\ ctl' = [ctl EXCEPT !.pc = "mqd_check", !.i = 0, !.target = a]
    /\ ActSet("actor_destroy", a, 0)
    /\ UNCHANGED <<actor_system, mq, sched, worker, snd, send_last, sent,
                   accepted, delivered, released, act_config, act_born>>
    /\ UNCHANGED <<gcvars, sigvars, objvars, envelope>>

\* actors_shutdown on a system that is not initialised
ActorsShutdownNull ==
    /\ ctl.pc = "idle"
    /\ ~actor_system.init
    /\ ActSet("actors_shutdown", 0, 0)
    /\ UNCHANGED <<actor_system, actor, mq, ctl, sched, worker, snd, send_last,
                   sent, accepted, delivered, released, act_config, act_born>>
    /\ UNCHANGED <<gcvars, sigvars, objvars, envelope>>

RegistryNext ==
    \/ \E config \in {NoConfig, custom_config} : ActorsInitCall(config)
    \/ \E behavior \in {NULL, 1} : ActorCreateCall(behavior)
    \/ \E a \in 1..MaxCreates : ActorDestroy(a)
    \/ DestroyCheck
    \/ ActorsShutdownNull
    \/ ActorsShutdown
    \/ ShutdownLoop

CtlStep ==
    JoinScheduler \/ JoinWorkers \/ ShutdownLoop \/ DestroyCheck \/ DestroyGet

SchedStep == SchedFor \/ SchedGet \/ SchedBehavior

SenderStep(m) == Put(m) \/ PutIf(m)

\* the system from actors_init on, as long as actors_shutdown is not called
MessagingNext ==
    \/ ActorsInit
    \/ ActorCreate
    \/ ActorsStart
    \/ ActorsStop
    \/ JoinScheduler
    \/ JoinWorkers
    \/ SchedStep
    \/ WorkerExit
    \/ \E a \in 1..MaxActors : Send(a)
    \/ \E m \in MsgIds : SenderStep(m)
    \/ \E m \in MsgIds : SpuriousWake(m)

\* the actors and the messages of the runs that stop the system
StopActors == 1
StopMessages == 3

\* start, stop and restart of a system with few actors and few messages
StopNext ==
    \/ ActorsInit
    \/ Len(actor) < StopActors /\ ActorCreate
    \/ ActorsStart
    \/ ActorsStop
    \/ JoinScheduler
    \/ JoinWorkers
    \/ SchedStep
    \/ WorkerExit
    \/ \E a \in 1..StopActors : sent < StopMessages /\ Send(a)
    \/ \E m \in MsgIds : SenderStep(m)
    \/ \E m \in MsgIds : SpuriousWake(m)

ActNext ==
    \/ MessagingNext
    \/ ActorsShutdown
    \/ ShutdownLoop
    \/ DestroyCheck
    \/ DestroyGet
    \/ \E m \in MsgIds, result \in BOOLEAN : PutUndefined(m, result)

\* the signals and the edges of the runs that mark, propagate and recompute
PropSignals == 2
MarkEdges == 2
PullEdges == 1

\* signal_create(1) while fewer than limit signals exist
SignalCreateUpTo(limit) ==
    /\ signals_state.init
    /\ Len(sig) < limit
    /\ LET r == signal_create(SigState, 1)
       IN SigSet(r.S, "signal_create", 1, r.ret)

\* computed_create of a function reading src, while fewer than limit signals
ComputedCreateUpTo(limit, src) ==
    /\ signals_state.init
    /\ Len(sig) < limit
    /\ LET r == computed_create(SigState, Twice(src))
       IN SigSet(r.S, "computed_create", src, r.ret)

\* computed_create of the function One, while fewer than limit signals
OneCreateUpTo(limit) ==
    /\ signals_state.init
    /\ Len(sig) < limit
    /\ LET r == computed_create(SigState, One)
       IN SigSet(r.S, "computed_create", NULL, r.ret)

\* signal_add_dependent while fewer than limit edges are registered
AddDependentUpTo(limit, signal, dependent) ==
    /\ signals_state.init
    /\ EdgeCount < limit
    /\ LET r == signal_add_dependent(SigState, signal, dependent)
       IN SigSet(r.S, "signal_add_dependent", signal, IF r.ok THEN 1 ELSE 0)

\* the calls that build a dependency graph, mark and propagate
MarkingNext ==
    \/ SignalsInit
    \/ SignalCreateUpTo(PropSignals)
    \/ \E src \in Handles : ComputedCreateUpTo(PropSignals, src)
    \/ OneCreateUpTo(PropSignals)
    \/ \E signal \in Handles, dependent \in Handles :
           AddDependentUpTo(MarkEdges, signal, dependent)
    \/ \E signal \in Handles : SignalMarkDirty(signal)
    \/ SignalsPropagate

\* the calls that set, mark and read
RecomputeNext ==
    \/ SignalsInit
    \/ SignalCreateUpTo(PropSignals)
    \/ \E src \in Handles : ComputedCreateUpTo(PropSignals, src)
    \/ \E signal \in Handles, v \in SignalValues : SignalSet(signal, v)
    \/ \E signal \in Handles : SignalGet(signal)
    \/ \E signal \in Handles, dependent \in Handles :
           AddDependentUpTo(PullEdges, signal, dependent)
    \/ \E signal \in Handles : SignalMarkDirty(signal)

(***************************************************************************)
(* Objects (runtime.c): a table of key and value slots, keys compared by   *)
(* strcmp.  A key is named by the string it points to.  vela_gc_alloc is   *)
(* taken to succeed.                                                       *)
(***************************************************************************)
\* size_t capacity = 256, scaled
ObjectSlots == 4
ObjectKeys == 1..(ObjectSlots + 1)
ObjectValues == {1, 2}

\* sizeof(size_t) + 256 * sizeof(void*), zeroed: the words of the object
vela_object_create == [i \in 0..ObjectSlots |-> NULL]

ObjInitState ==
    /\ object = [made |-> FALSE, entries |-> vela_object_create]
    /\ obj_last = [op |-> "none", key |-> NULL, value |-> NULL, ret |-> 0]

\* for (i = 0; i < capacity; i += 2), from index i: the entries and the bool
RECURSIVE ObjectSetFrom(_, _, _, _)
ObjectSetFrom(entries, key, value, i) ==
    IF i >= ObjectSlots THEN [entries |-> entries, ret |-> FALSE]
    ELSE IF entries[i] = NULL
    THEN [entries |-> [entries EXCEPT ![i] = key, ![i + 1] = value],
          ret |-> TRUE]
    ELSE IF entries[i] = key
    THEN [entries |-> [entries EXCEPT ![i + 1] = value], ret |-> TRUE]
    ELSE ObjectSetFrom(entries, key, value, i + 2)

vela_object_set(entries, key, value) ==
    IF key = NULL THEN [entries |-> entries, ret |-> FALSE]
    ELSE ObjectSetFrom(entries, key, value, 0)

RECURSIVE ObjectGetFrom(_, _, _)
ObjectGetFrom(entries, key, i) ==
    IF i >= ObjectSlots \/ entries[i] = NULL THEN NULL
    ELSE IF entries[i] = key THEN entries[i + 1]
    ELSE ObjectGetFrom(entries, key, i + 2)

vela_object_get(entries, key) ==
    IF key = NULL THEN NULL ELSE ObjectGetFrom(entries, key, 0)

ObjectCreate ==
    /\ ~object.made
    /\ object' = [made |-> TRUE, entries |-> vela_object_create]
    /\ obj_last' = [op |-> "object_create", key |-> NULL, value |-> NULL,
                    ret |-> 1]
    /\ UNCHANGED <<gcvars, sigvars, actvars, envelope>>

ObjectSet(key, value) ==
    /\ object.made
    /\ LET r == vela_object_set(object.entries, key, value)
       IN /\ object' = [object EXCEPT !.entries = r.entries]
          /\ obj_last' = [op |-> "object_set", key |-> key, value |-> value,
                          ret |-> IF r.ret THEN 1 ELSE 0]
    /\ UNCHANGED <<gcvars, sigvars, actvars, envelope>>

ObjectGet(key) ==
    /\ object.made
    /\ obj_last' = [op |-> "object_get", key |-> key, value |-> NULL,
                    ret |-> vela_object_get(object.entries, key)]
    /\ UNCHANGED <<object, gcvars, sigvars, actvars, envelope>>

ObjectNext ==
    \/ ObjectCreate
    \/ \E key \in ObjectKeys, value \in ObjectValues : ObjectSet(key, value)
    \/ \E key \in ObjectKeys : ObjectGet(key)

vars == <<gcvars, sigvars, actvars, objvars, envelope>>

Init ==
    /\ GcInitState /\ SigInitState /\ ActInitState /\ ObjInitState
    /\ envelope = <<>>

SpecGC == Init /\ [][GcNext]_vars

\* the calls that build objects and edit the root array
RootsNext ==
    \/ \E heap_size \in {SmallHeap, LargeHeap} : GcInit(heap_size)
    \/ \E size \in {1, 2} : GcAlloc(size, 0)
    \/ \E ptr \in KnownPtrs \cup {NULL} : GcAddRoot(ptr)
    \/ \E ptr \in KnownPtrs \cup {NULL} : GcRemoveRoot(ptr)

SpecRoots == Init /\ [][RootsNext]_vars

SpecSignals == Init /\ [][SigNext]_vars

\* the calls that build signals and edit their dependents lists
DependentsNext ==
    \/ SignalsInit
    \/ \E v \in SignalValues : SignalCreate(v)
    \/ \E signal \in Handles, dependent \in Handles :
           SignalAddDependent(signal, dependent)
    \/ \E signal \in Handles, dependent \in Handles :
           SignalRemoveDependent(signal, dependent)

SpecMarking == Init /\ [][MarkingNext]_vars

SpecRecompute == Init /\ [][RecomputeNext]_vars

SpecDependents == Init /\ [][DependentsNext]_vars

\* init and shutdown of the heap and of the signals, with objects and signals
\* made in between (RegistryNext has the calls of the actor system)
LifecycleNext ==
    \/ GcInitCall(SmallHeap)
    \/ GcAlloc(1, 0)
    \/ GcCollect
    \/ GcShutdown
    \/ SignalsInitCall
    \/ SignalCreate(1)
    \/ SignalsShutdown

SpecLifecycle == Init /\ [][LifecycleNext]_vars

SpecObject == Init /\ [][ObjectNext]_vars

SpecMessaging == Init /\ [][MessagingNext]_vars

SpecRegistry == Init /\ [][RegistryNext]_vars

SpecActors == Init /\ [][ActNext]_vars

\* the threads are scheduled fairly; the API calls, the spurious wake-ups and
\* the outcomes of undefined behaviour are not forced to happen
SpecStop == Init /\ [][StopNext]_vars

FairStop ==
    /\ SpecStop
    /\ WF_vars(CtlStep)
    /\ WF_vars(SchedStep)
    /\ WF_vars(WorkerExit)
    /\ \A m \in MsgIds : WF_vars(SenderStep(m))

FairActors ==
    /\ SpecActors
    /\ WF_vars(CtlStep)
    /\ WF_vars(SchedStep)
    /\ WF_vars(WorkerExit)
    /\ \A m \in MsgIds : WF_vars(SenderStep(m))

(***************************************************************************)
(* Garbage collector claims                                                *)
(***************************************************************************)

RootSet == SeqToSet(gc_heap.roots)
IsRooted(hd) == PayloadOf(hd) \in RootSet

\* C7: after gc_collect returns, the live list holds exactly the previously
\* live objects whose payload pointer is in the root set (rooted ones stay,
\* unrooted ones are unlinked) and object_count drops by the number unlinked.
C7_CollectKeepsExactlyRooted ==
    [][gc_last'.op = "gc_collect" =>
         LET before == ListFrom(gc_mem, gc_heap.objects)
             kept == SelectSeq(before, IsRooted)
         IN /\ ListFrom(gc_mem', gc_heap'.objects) = kept
            /\ gc_heap'.object_count =
                   gc_heap.object_count - (Len(before) - Len(kept))]_vars

\* C8: whenever gc_alloc(size), size > 0, returns a non-null pointer p,
\* is_heap_ptr(p) holds and [p, p + size) lies inside [heap_start, heap_end).
C8_AllocReturnsPayloadInArena ==
    (gc_last.op = "gc_alloc" /\ gc_last.ret # NULL) =>
        /\ gc_is_heap_ptr(gc_heap, gc_last.ret)
        /\ gc_last.ret + gc_last.arg <= gc_heap.heap_end

\* C9: gc_collect never increases free_bytes, never decreases used_bytes and
\* never moves the bump cursor, however many objects it unlinks.  A collection
\* is a gc_collect call or the one a gc_alloc ran before returning null.
C9_CollectReclaimsNothing ==
    [][(\/ gc_last'.op = "gc_collect"
        \/ /\ gc_last'.op = "gc_alloc" /\ gc_last'.ret = NULL
           /\ gc_stats'.collection_count # gc_stats.collection_count) =>
         /\ gc_stats'.free_bytes <= gc_stats.free_bytes
         /\ gc_stats'.used_bytes >= gc_stats.used_bytes
         /\ gc_heap'.free_ptr = gc_heap.free_ptr]_vars

\* a gc_collect call has just unlinked at least two objects
C9_Witness ==
    /\ gc_last.op = "gc_collect"
    /\ gc_heap.object_count + 2 <= gc_last.cnt

(***************************************************************************)
(* Signal claims                                                           *)
(***************************************************************************)

\* no dependency was registered by hand: only signal_create, computed_create,
\* signal_set and signal_get have shaped the graph
OnlyPublicCalls == \A h \in Handles : sig[h].dependents = <<>>

\* C4: using only signal_create, computed_create, signal_set and signal_get,
\* signal_get on a computed signal whose function reads the plain signal s
\* returns the function's value on the value last set on s (2, then 10 after
\* signal_set(s, 5), for 2 * signal_get(s) and s created holding 1).
C4_ComputedFollowsSet ==
    (/\ sig_last.op = "signal_get"
     /\ OnlyPublicCalls
     /\ sig[sig_last.arg].is_computed
     /\ ~sig[sig[sig_last.arg].compute_fn.src].is_computed) =>
        sig_last.ret = (2 * sig[sig[sig_last.arg].compute_fn.src].value) % Word

\* C10: signal_set applied to a computed signal is reported to the caller as
\* an error; it is not silently ignored.
C10_SetOnComputedReported ==
    (sig_last.op = "signal_set" /\ sig[sig_last.arg].is_computed) =>
        Reported

(***************************************************************************)
(* Actor claims                                                            *)
(***************************************************************************)

\* C1: if the system stops while callers are blocked in actor_send on a full
\* mailbox, every such caller is eventually woken and its send returns false;
\* no sender stays blocked forever after the stop.
C1_BlockedSendersWoken ==
    \A m \in MsgIds :
        (m \in InFlight /\ snd[m].pc = "put_wait" /\ ~actor_system.running)
            ~> (send_last.message = m /\ ~send_last.ret)

\* ctl is inside actors_shutdown
InShutdown ==
    \/ ctl.pc \in {"sd_loop", "mqd_check", "mqd_get"}
    \/ ctl.pc \in {"join_sched", "join_workers"} /\ ctl.after = "sd_loop"

\* C2: actors_shutdown terminates from every reachable state, also when a
\* mailbox still holds undelivered messages: it is drained and destroyed and
\* the call returns.
C2_ShutdownReturns == InShutdown ~> ~InShutdown

\* C3: when actors_shutdown returns, every actor that was registered when it
\* was called has been destroyed: its mailbox destroyed, its struct freed.
C3_ShutdownDestroysAll ==
    [][(ctl.pc = "sd_loop" /\ ctl'.pc = "idle") =>
          \A a \in ctl.registered : actor'[a].freed /\ mq'[a].destroyed]_vars

\* C5: in a running system a send to a mailbox that holds capacity messages
\* does not return while the mailbox is full: a send made and completed
\* while the system runs returns only from a mailbox with a free slot,
\* returns true, and leaves its message last in the mailbox; and a removal
\* from a mailbox with blocked senders wakes one of them.
C5_FullMailboxBlocksSend ==
    [][\A m \in MsgIds :
          (m \in InFlight /\ snd[m].live) =>
             LET a == snd[m].to
             IN /\ m \notin DOMAIN snd' =>
                     /\ mq[a].count < mq[a].capacity
                     /\ send_last'.message = m /\ send_last'.ret
                     /\ mq'[a].count > 0
                     /\ QueueContents(mq'[a])[mq'[a].count] = m
                /\ (m \in mq[a].not_full /\ mq'[a].count < mq[a].count) =>
                     \E k \in mq[a].not_full :
                        k \notin mq'[a].not_full /\ snd'[k].pc = "put"]_vars

\* a send that found the mailbox full and waited has returned true, in a
\* system that ran all along, and its message is in the mailbox
C5_Witness ==
    /\ send_last.ret /\ send_last.blocked /\ send_last.live
    /\ \E k \in 1..mq[send_last.to].count :
          QueueContents(mq[send_last.to])[k] = send_last.message

\* the message the scheduler has dequeued for actor a and not yet passed on
InHand(a) ==
    IF sched.pc = "behavior" /\ sched.actor = a THEN <<sched.message>> ELSE <<>>

IsCreateCall ==
    ctl.pc = "idle" /\ ctl'.pc = "idle" /\ act_last'.op = "actor_create"

\* C11: a call of actor_create on an uninitialised system, with a null
\* behaviour, or with actors_count equal to the configured max_actors,
\* returns null and leaves the registry, actors_count, the next-id counter
\* and every actor as they were; so actors_count never exceeds max_actors.
C11_CreateRefused ==
    [][/\ (/\ IsCreateCall
           /\ \/ ~actor_system.init
              \/ act_last'.arg = NULL
              \/ actors_count(actor_system) = act_config.max_actors)
          => /\ act_last'.ret = NULL
             /\ actor_system' = actor_system
             /\ actors_count(actor_system') = actors_count(actor_system)
             /\ actor' = actor
             /\ mq' = mq
       /\ actor_system'.init
          => actors_count(actor_system') <= act_config'.max_actors]_vars

\* the registry is full and actor_create has just returned null for a
\* behaviour that is not null
C11_Witness ==
    /\ act_last.op = "actor_create" /\ act_last.arg # NULL
    /\ act_last.ret = NULL
    /\ actor_system.init
    /\ actors_count(actor_system) = act_config.max_actors
    /\ actors_count(actor_system) > 0

\* a step on which a call of actor_destroy made on its own returns
DestroyReturns ==
    ctl.pc = "mqd_check" /\ ctl.i = 0 /\ ctl'.pc = "idle"

\* C12: actor_destroy(a) on a registered actor decreases actors_count by
\* exactly one, removes a and only a from the registry, the others keeping
\* their order, and afterwards actor_find_by_id(a.id) returns null.
C12_DestroyRemovesOne ==
    [][DestroyReturns =>
         LET a == ctl.target
         IN /\ actors_count(actor_system') = actors_count(actor_system) - 1
            /\ actor_system'.actors =
                   SelectSeq(actor_system.actors, LAMBDA x : x # a)
            /\ actor_find_by_id(actor_system', actor', actor[a].id) = NULL]_vars

\* C13: every actor created after actors_init(config) owns a mailbox whose
\* capacity is config.max_mailbox_size, whatever value was configured.
C13_MailboxCapacityConfigured ==
    actor_system.init =>
        \A a \in Registered : mq[a].capacity = act_config.max_mailbox_size

\* the actors created since the running actors_init, destroyed or not
ThisLifetime == {b \in DOMAIN actor : b > act_born}

\* C14: within one lifetime of the system (actors_init to actors_shutdown)
\* the ids handed out are at least 1 and strictly increasing in creation
\* order, an id is never handed out again, even after actors were
\* destroyed, and no two registered actors share an id.
C14_IdsIncreaseNeverReused ==
    [][(IsCreateCall /\ act_last'.ret # NULL) =>
         LET new == actor'[act_last'.ret].id
         IN /\ new >= 1
            /\ \A b \in ThisLifetime : actor[b].id < new
            /\ \A b, c \in SeqToSet(actor_system'.actors) :
                  b # c => actor'[b].id # actor'[c].id]_vars

(***************************************************************************)
(* The heap statistics, the root array and the allocation that does not    *)
(* fit.                                                                    *)
(***************************************************************************)

NoDuplicate(s) == \A j, k \in 1..Len(s) : j # k => s[j] # s[k]

\* C15: after any sequence of gc_alloc and gc_collect calls, object_count
\* of the snapshot gc_get_stats returns is the number of objects on the
\* live list.
C15_StatsObjectCount ==
    (gc_heap.init /\ gc_last.op \in {"gc_alloc", "gc_collect"}) =>
        gc_get_stats(GcState).object_count
            = Len(ListFrom(gc_mem, gc_heap.objects))

\* C17: after any sequence of gc_add_root and gc_remove_root calls the root
\* array holds no duplicate and no null entry and root_count is at most
\* root_capacity; after gc_remove_root(p), p is not in the array and the
\* remaining roots keep their order.
C17_RootArrayWellFormed ==
    [][/\ NoDuplicate(gc_heap'.roots)
       /\ NULL \notin SeqToSet(gc_heap'.roots)
       /\ Len(gc_heap'.roots) <= gc_heap'.root_capacity
       /\ gc_last'.op = "gc_remove_root"
          => /\ gc_last'.arg \notin SeqToSet(gc_heap'.roots)
             /\ gc_heap'.roots =
                    SelectSeq(gc_heap.roots, LAMBDA x : x # gc_last'.arg)]_vars

\* the root array has grown, and its first root has just been removed
C17_Witness ==
    /\ gc_last.op = "gc_remove_root"
    /\ gc_heap.root_capacity > InitialRootCapacity
    /\ Len(gc_heap.roots) = 1
    /\ gc_last.arg < gc_heap.roots[1]

\* header plus payload of size bytes do not fit between the bump cursor and
\* the arena end
DoesNotFit(heap, size) == heap.free_ptr + HeaderSize + size > heap.heap_end

\* C18: a gc_alloc whose header plus payload does not fit between the bump
\* cursor and the arena end runs exactly one collection, and as the request
\* still does not fit afterwards (a collection moves neither the cursor nor
\* the arena end) it returns null and leaves the bump cursor, used_bytes,
\* free_bytes and total_allocated unchanged; the bump cursor never passes
\* heap_end.
C18_AllocThatDoesNotFit ==
    [][/\ (/\ gc_last'.op \in {"gc_alloc", "gc_alloc_ub"}
           /\ DoesNotFit(gc_heap, gc_last'.arg))
          => /\ gc_stats'.collection_count = gc_stats.collection_count + 1
             /\ gc_last'.ret = NULL
             /\ gc_heap'.free_ptr = gc_heap.free_ptr
             /\ gc_stats'.used_bytes = gc_stats.used_bytes
             /\ gc_stats'.free_bytes = gc_stats.free_bytes
             /\ gc_stats'.total_allocated = gc_stats.total_allocated
       /\ gc_heap'.free_ptr <= gc_heap'.heap_end]_vars

(***************************************************************************)
(* The dependents lists.                                                   *)
(***************************************************************************)

\* C16: after any sequence of signal_add_dependent and
\* signal_remove_dependent calls no dependents list holds the same
\* dependent twice: a call that adds returns true and either leaves the
\* list as it was (the dependent was present) or appends a dependent that
\* was not present; a call that removes takes one entry out and leaves the
\* others in registration order.
C16_DependentsNoDuplicate ==
    [][/\ \A h \in 1..Len(sig') : NoDuplicate(sig'[h].dependents)
       /\ \A h \in Handles :
            LET old == sig[h].dependents
                new == sig'[h].dependents
            IN /\ (sig_last'.op = "signal_add_dependent" /\ sig_last'.arg = h)
                  => /\ sig_last'.ret = 1
                     /\ \/ new = old
                        \/ /\ Len(new) = Len(old) + 1
                           /\ SubSeq(new, 1, Len(old)) = old
                           /\ new[Len(new)] \notin SeqToSet(old)
               /\ (sig_last'.op = "signal_remove_dependent" /\ sig_last'.arg = h)
                  => \/ new = old
                     \/ \E i \in 1..Len(old) : new = RemoveAt(old, i)]_vars

\* a dependents list that has held two dependents is left with the one
\* created last, after a removal
C16_Witness ==
    /\ sig_last.op = "signal_remove_dependent"
    /\ Len(sig[sig_last.arg].dependents) = 1
    /\ sig[sig_last.arg].dependents[1] > sig_last.arg

(***************************************************************************)
(* Init and shutdown of the subsystems.                                    *)
(***************************************************************************)

\* a step that is a call of the heap API, of the signal API, or one whole
\* call of the actor API made on its own
GcCalled(ops) == gcvars' # gcvars /\ gc_last'.op \in ops
SigCalled(ops) == sigvars' # sigvars /\ sig_last'.op \in ops
ActCalled(ops) ==
    /\ actvars' # actvars
    /\ ctl.pc = "idle" /\ ctl'.pc = "idle"
    /\ act_last'.op \in ops

HeapInitShutdown ==
    /\ (GcCalled({"gc_init"}) /\ gc_heap.init)
       => /\ gc_last'.ret = 0
          /\ <<gc_heap, gc_mem, gc_stats, gc_ub>>'
                = <<gc_heap, gc_mem, gc_stats, gc_ub>>
    /\ (GcCalled({"gc_shutdown", "gc_shutdown_ub"}) /\ ~gc_heap.init)
       => <<gc_heap, gc_mem, gc_stats, gc_ub>>'
             = <<gc_heap, gc_mem, gc_stats, gc_ub>>
    /\ GcCalled({"gc_shutdown", "gc_shutdown_ub"})
       => ~gc_heap'.init /\ ~gc_ub'
    /\ (GcCalled({"gc_init"}) /\ ~gc_heap.init)
       => gc_last'.ret = 1 /\ gc_heap'.init

SignalsInitShutdown ==
    /\ (SigCalled({"signals_init"}) /\ signals_state.init)
       => sig_last'.ret = 0 /\ <<signals_state, sig>>' = <<signals_state, sig>>
    /\ (SigCalled({"signals_shutdown"}) /\ ~signals_state.init)
       => <<signals_state, sig>>' = <<signals_state, sig>>
    /\ SigCalled({"signals_shutdown"}) => ~signals_state'.init
    /\ (SigCalled({"signals_init"}) /\ ~signals_state.init)
       => sig_last'.ret = 1 /\ signals_state'.init

ActorsInitShutdown ==
    /\ (ActCalled({"actors_init"}) /\ actor_system.init)
       => /\ act_last'.ret = 0
          /\ <<actor_system, actor, mq>>' = <<actor_system, actor, mq>>
    /\ (ActCalled({"actors_shutdown"}) /\ ~actor_system.init)
       => <<actor_system, actor, mq>>' = <<actor_system, actor, mq>>
    /\ (ctl.pc = "sd_loop" /\ ctl'.pc = "idle") => ~actor_system'.init
    /\ (ActCalled({"actors_init"}) /\ ~actor_system.init)
       => act_last'.ret = 1 /\ actor_system'.init

\* C19: for the heap, the signals and the actor system: init called while
\* initialised returns false and leaves the subsystem as it was; shutdown
\* called while uninitialised (a second shutdown in a row included) changes
\* nothing; a shutdown leaves the subsystem uninitialised, with nothing
\* undefined done, and the init after it succeeds.
C19_InitShutdown ==
    [][HeapInitShutdown /\ SignalsInitShutdown /\ ActorsInitShutdown]_vars

(***************************************************************************)
(* The lifecycle of the actor system.                                      *)
(***************************************************************************)

\* actors_stop has made the system not running: it is joining the threads,
\* or it has joined them and the system was not shut down since
Stopped ==
    \/ ctl.pc \in {"join_sched", "join_workers"}
    \/ sched.pc = "joined"

\* C20: the lifecycle is Created -> Running -> Stopped and Stopped is
\* terminal: once actors_stop has made the system not running, no later
\* call (actors_start in particular) makes it running again.
C20_StoppedIsTerminal ==
    [][(Stopped /\ ~actor_system.running) => ~actor_system'.running]_vars

(***************************************************************************)
(* Objects.                                                                *)
(***************************************************************************)

\* the distinct keys the object holds
KeysPresent(entries) ==
    {key \in ObjectKeys : \E i \in 0..(ObjectSlots - 1) : entries[i] = key}

\* C21: an object holds up to 256 (here ObjectSlots) key/value pairs:
\* object_set returns true and stores the pair for each of the first 256
\* distinct keys, and for a key already present, and returns false, storing
\* nothing, only for a new key once 256 distinct keys are present.
C21_ObjectHoldsAllPairs ==
    [][(objvars' # objvars /\ obj_last'.op = "object_set") =>
         LET key == obj_last'.key
             present == KeysPresent(object.entries)
         IN /\ (key \in present \/ Cardinality(present) < ObjectSlots)
               => /\ obj_last'.ret = 1
                  /\ vela_object_get(object'.entries, key) = obj_last'.value
            /\ obj_last'.ret = 0
               => /\ key \notin present
                  /\ Cardinality(present) = ObjectSlots
                  /\ object' = object]_vars

(***************************************************************************)
(* The ownership of envelopes.                                             *)
(***************************************************************************)

\* the envelopes whose send has returned true
Accepted == UNION {SeqToSet(accepted[a]) : a \in 1..Len(actor)}

\* the envelopes held in a mailbox
InMailbox == UNION {SeqToSet(QueueContents(mq[a])) : a \in 1..Len(actor)}

\* C22: every envelope accepted by a successful send is released by the
\* runtime at most once: by the scheduler when that envelope's behaviour
\* callback has returned, or by mailbox destruction when it was never
\* dequeued; it is not released while it is still in a mailbox or while the
\* scheduler holds it for its callback; an envelope whose send did not return
\* true is never released.
C22_EnvelopeReleasedOnce ==
    \A m \in MsgIds :
        /\ released[m] <= 1
        /\ released[m] > 0 =>
              /\ m \in Accepted
              /\ m \notin InMailbox
              /\ ~(sched.pc = "behavior" /\ sched.message = m)

(***************************************************************************)
(* Recomputation of computed signals.                                      *)
(***************************************************************************)

\* how many times the compute function of c was invoked in the last call
Invocations(calls, c) == Cardinality({k \in 1..Len(calls) : calls[k] = c})

\* what the compute function of c returns in the state sg
Fresh(sg, c) == (2 * sg[sg[c].compute_fn.src].value) % Word

\* C23: signal_get on a computed signal invokes its compute function exactly
\* when needs_recompute is set, then clears the flag and returns the fresh
\* value; when the flag is clear it returns the memoized value without
\* invoking the function; and every recompute, on the pull path (signal_get)
\* or the push path (signal_set, signals_propagate_changes), clears the flag.
C23_GetRecomputesWhenFlagged ==
    [][(sigvars' # sigvars) =>
         /\ \A k \in 1..Len(sig_last'.calls) :
               ~sig'[sig_last'.calls[k]].needs_recompute
         /\ (sig_last'.op = "signal_get" /\ sig[sig_last'.arg].is_computed) =>
               LET c == sig_last'.arg
               IN IF sig[c].needs_recompute
                  THEN /\ Invocations(sig_last'.calls, c) = 1
                       /\ ~sig'[c].needs_recompute
                       /\ sig'[c].value = Fresh(sig', c)
                       /\ sig_last'.ret = sig'[c].value
                  ELSE /\ Invocations(sig_last'.calls, c) = 0
                       /\ sig_last'.ret = sig[c].value
                       /\ sig' = sig]_vars

\* a flagged computed signal was read: its function ran and it returned a
\* value other than the one memoized at its creation
C23_Witness ==
    /\ sig_last.op = "signal_get"
    /\ sig_last.calls = <<sig_last.arg>>
    /\ sig_last.ret = 10

(***************************************************************************)
(* The mailbox as a bounded buffer.                                        *)
(***************************************************************************)

\* the slots of the queue that hold a message not yet dequeued
Occupied(queue) ==
    {(queue.head + k) % queue.capacity : k \in 0..(queue.count - 1)}

\* C24: under any interleaving of senders and the consumer on one mailbox,
\* spurious wake-ups included, count stays within 0..capacity, no enqueue
\* overwrites an undelivered message, no dequeue reads an empty slot, and
\* tail = (head + count) mod capacity whenever the mailbox mutex is free.
C24_MailboxWellFormed ==
    [][\A a \in 1..Len(actor) :
         LET before == mq[a]
             after == mq'[a]
         IN /\ after.count \in 0..after.capacity
            /\ after.mutex = NoThread =>
                  after.tail = (after.head + after.count) % after.capacity
            /\ after.count > before.count => before.tail \notin Occupied(before)
            /\ after.count < before.count => before.head \in Occupied(before)]_vars

(***************************************************************************)
(* Who runs the behaviour callbacks.                                       *)
(***************************************************************************)

\* C25: while the system runs, behaviour callbacks are invoked only by the
\* scheduler thread and never by a worker thread: a step in which an actor's
\* behaviour gets a message is the scheduler's step out of its one callback,
\* on the one message it holds, so at most one callback executes at a time
\* and no two messages of an actor are processed concurrently; and a step of
\* a worker thread touches no mailbox and calls no behaviour.
C25_OnlySchedulerRunsBehaviour ==
    [][/\ \A a \in 1..Len(actor) :
            delivered'[a] # delivered[a] =>
               /\ sched.pc = "behavior" /\ sched.actor = a
               /\ sched'.pc = "for"
               /\ delivered'[a] = Append(delivered[a], sched.message)
               /\ \A b \in 1..Len(actor) :
                     b # a => delivered'[b] = delivered[b]
               /\ worker' = worker
       /\ worker'.exited > worker.exited =>
            UNCHANGED <<mq, delivered, released, sched>>]_vars

\* an actor's behaviour has been called while worker threads were running
C25_Witness ==
    /\ actor_system.running
    /\ worker.run > 0
    /\ \E a \in 1..Len(actor) : Len(delivered[a]) > 0

(***************************************************************************)
(* Delivery.                                                               *)
(***************************************************************************)

\* how many times message m was passed to a behaviour
Deliveries(m) ==
    Cardinality({p \in {<<a, k>> : a \in 1..Len(actor), k \in 1..MaxMessages + 1} :
                    p[2] <= Len(delivered[p[1]]) /\ delivered[p[1]][p[2]] = m})

\* C26: while the system stays running and every behaviour callback returns,
\* each message whose send returned true is eventually delivered to its
\* actor's behaviour, and no message is delivered more than once; after a
\* delivery the scheduler moves on to the next actor of the registry, so one
\* pass takes at most one message from each actor.
C26_DeliveredExactlyOnce ==
    /\ [](\A m \in MsgIds : Deliveries(m) <= 1)
    /\ [][(sched.pc = "behavior" /\ sched'.pc # "behavior") =>
             sched'.pc = "for" /\ sched'.i = sched.i + 1]_vars
    /\ \A m \in MsgIds :
          (m \in Accepted) ~> (Deliveries(m) > 0 \/ ~actor_system.running)

(***************************************************************************)
(* Stopping.                                                               *)
(***************************************************************************)

\* ctl is inside actors_stop, joining the threads
Stopping == ctl.pc \in {"join_sched", "join_workers"}

\* C27: after actors_stop is called on a running system it eventually
\* returns, with the scheduler thread and every worker thread terminated,
\* provided every behaviour callback returns; a thread ends by leaving its
\* loop after it has read the cleared running flag, none is cancelled.
C27_StopReturns ==
    /\ Stopping ~> ~Stopping
    /\ [][(Stopping /\ ~Stopping') =>
             /\ sched'.pc = "joined"
             /\ worker.run = 0
             /\ worker.exited = actor_system.worker_count]_vars
    /\ [][/\ (sched.pc # "exited" /\ sched'.pc = "exited") =>
                sched.pc = "for" /\ ~actor_system.running
          /\ worker'.exited > worker.exited => ~actor_system.running]_vars

\* actors_stop has returned on a system that had delivered a message
C27_Witness ==
    /\ ctl.pc = "idle"
    /\ sched.pc = "joined"
    /\ ~actor_system.running
    /\ \E a \in 1..Len(actor) : Len(delivered[a]) > 0

(***************************************************************************)
(* Marking and propagation.                                                *)
(***************************************************************************)

\* C28: for any sequence of calls, direct signal_mark_dirty calls and
\* signal_add_dependent calls at any time included, when signal_set(s, v) on
\* a non-computed signal s returns outside a running propagation, a value is
\* stored in s, the dirty list is empty, and every computed signal in the
\* dependents list of s has needs_recompute clear and a value that its
\* function computed in this call, after the store.
C28_SetLeavesDependentsFresh ==
    [][(/\ sigvars' # sigvars
        /\ sig_last'.op = "signal_set"
        /\ ~sig[sig_last'.arg].is_computed
        /\ ~signals_state.propagation_running) =>
          LET s == sig_last'.arg
          IN /\ sig'[s].value \in SignalValues
             /\ sig'[s].raw_value = sig'[s].value
             /\ signals_state'.dirty_signals = <<>>
             /\ \A k \in 1..Len(sig'[s].dependents) :
                   LET c == sig'[s].dependents[k]
                   IN sig'[c].is_computed =>
                        /\ ~sig'[c].needs_recompute
                        /\ Invocations(sig_last'.calls, c) > 0]_vars

\* the signal reaches itself along dependents lists: a cycle or a self-loop
RECURSIVE ReachableFrom(_, _)
ReachableFrom(set, n) ==
    IF n = 0 THEN set
    ELSE ReachableFrom(set \cup UNION {SeqToSet(sig[x].dependents) : x \in set},
                       n - 1)

OnCycle(x) == x \in ReachableFrom(SeqToSet(sig[x].dependents), Len(sig))

\* C29: signal_mark_dirty terminates on every finite dependency graph,
\* cycles and self-dependencies included: a call on a signal already in the
\* dirty list returns at once and changes nothing, any other call appends
\* the signal and then only signals not yet present, so the dirty list never
\* contains a signal twice.
C29_MarkDirtyTerminates ==
    [][/\ NoDuplicate(signals_state'.dirty_signals)
       /\ (sigvars' # sigvars /\ sig_last'.op = "signal_mark_dirty") =>
            LET before == signals_state.dirty_signals
                after == signals_state'.dirty_signals
                x == sig_last'.arg
            IN IF IndexOf(before, x, 1) # 0
               THEN after = before /\ sig' = sig
               ELSE /\ Len(after) > Len(before)
                    /\ SubSeq(after, 1, Len(before)) = before
                    /\ after[Len(before) + 1] = x]_vars

\* signal_mark_dirty has returned on a signal that lies on a cycle of two
\* signals, with both in the dirty list
C29_Witness ==
    /\ sig_last.op = "signal_mark_dirty"
    /\ OnCycle(sig_last.arg)
    /\ sig_last.arg \notin SeqToSet(sig[sig_last.arg].dependents)
    /\ Len(signals_state.dirty_signals) = 2

\* the positions of the dirty list that hold a computed signal whose
\* needs_recompute is set
FlaggedEntries ==
    {k \in 1..Len(signals_state.dirty_signals) :
        LET c == signals_state.dirty_signals[k]
        IN sig[c].is_computed /\ sig[c].needs_recompute}

\* C30: a non-nested signals_propagate_changes visits the dirty list once in
\* insertion order and recomputes each computed entry that still has
\* needs_recompute set when it is reached: the first function to run is that
\* of the first flagged entry, every flagged entry has its function run
\* exactly once (by the visit, or earlier in the pass by a read from another
\* function) and its flag cleared, no function runs twice and none of an
\* unflagged signal runs, and on return the dirty list is empty and
\* propagation_running is false.
C30_PropagateOnePass ==
    [][(/\ sigvars' # sigvars
        /\ sig_last'.op = "signals_propagate_changes"
        /\ ~signals_state.propagation_running) =>
          LET dirty == signals_state.dirty_signals
              calls == sig_last'.calls
          IN /\ signals_state'.dirty_signals = <<>>
             /\ ~signals_state'.propagation_running
             /\ NoDuplicate(calls)
             /\ \A k \in FlaggedEntries :
                   /\ Invocations(calls, dirty[k]) = 1
                   /\ ~sig'[dirty[k]].needs_recompute
             /\ \A k \in 1..Len(calls) :
                   sig[calls[k]].is_computed /\ sig[calls[k]].needs_recompute
             /\ FlaggedEntries # {} =>
                   calls[1] = dirty[CHOOSE k \in FlaggedEntries :
                                      \A j \in FlaggedEntries : k <= j]]_vars

\* a propagation has run two functions, the first of which reads the signal
\* of the second: the dependent was visited before its source
C30_Witness ==
    /\ sig_last.op = "signals_propagate_changes"
    /\ Len(sig_last.calls) = 2
    /\ sig[sig_last.calls[1]].compute_fn = Twice(sig_last.calls[2])

\* C36: gc_shutdown passes to free only blocks that came from the system
\* allocator, each once: no call of it frees the address of an object header
\* that lies inside the arena, whatever is on the live list.
C36_ShutdownFreesOnlyAllocated ==
    [][gc_last'.op = "gc_shutdown_ub" => gc_last.op = "gc_shutdown_ub"]_vars

\* the end of the header-plus-payload region of the object whose header is hd
RegionEnd(mem, hd) == hd + HeaderSize + mem[hd].size

\* C33: over any sequence of gc_alloc, gc_collect, gc_add_root and
\* gc_remove_root the bump cursor free_ptr never decreases, and the
\* header-plus-payload regions of any two objects gc_alloc has ever returned,
\* swept or not, are disjoint: a swept object is never overwritten by a later
\* allocation.
C33_CursorMonotonicRegionsDisjoint ==
    [][(gc_heap.init /\ gc_heap'.init) =>
          /\ gc_heap'.free_ptr >= gc_heap.free_ptr
          /\ \A a, b \in DOMAIN gc_mem' :
                a < b => RegionEnd(gc_mem', a) <= b]_vars

\* C32: signals_shutdown destroys every signal that is registered when it is
\* called, however many there are: each one has its dependents array released,
\* and none is left behind by the pass over the registry.
C32_ShutdownDestroysEverySignal ==
    [][(sig_last'.op = "signals_shutdown" /\ signals_state.init) =>
          \A signal \in SeqToSet(signals_state.all_signals) :
              sig'[signal].dependents_freed]_vars

(***************************************************************************)
(* vela_send_message (runtime.c): the envelope handed to actor_send is the *)
(* address of the local msg.                                               *)
(***************************************************************************)

EnvelopeActors == 1

\* vela_message_t msg; memset; msg.data = message; vela_actor_send(actor,
\* &msg): the null tests of actor_send pass and message_queue_put is entered
\* with the address of the local.  One thread makes these calls, one at a time.
VelaSendMessage(a) ==
    /\ \A m \in DOMAIN envelope : ~envelope[m].frame
    /\ ActorSend(a)
    /\ envelope' = [m \in DOMAIN envelope \cup {sent + 1} |->
                      IF m \in DOMAIN envelope THEN envelope[m]
                      ELSE [frame |-> TRUE, ret |-> NULL]]

\* return vela_actor_send(...) ? 1 : 0: the call returns and msg is gone
VelaReturn(m) ==
    /\ m \in DOMAIN envelope
    /\ envelope[m].frame
    /\ m \notin InFlight
    /\ send_last.message = m
    /\ envelope' = [envelope EXCEPT
                      ![m] = [frame |-> FALSE,
                              ret |-> IF send_last.ret THEN 1 ELSE 0]]
    /\ UNCHANGED <<gcvars, sigvars, actvars, objvars>>

\* actor->behavior(actor, message); free(message) with the address of a
\* local of vela_send_message: the behaviour reads whatever the stack holds
\* there and free is handed a pointer malloc never returned.  The scheduler
\* thread is lost to the undefined behaviour.
SchedBehaviorUndefined ==
    /\ sched.pc = "behavior"
    /\ ~EnvelopeReleasable(sched.message)
    /\ sched' = [sched EXCEPT !.pc = "undefined"]
    /\ UNCHANGED <<actor_system, actor, mq, ctl, worker, snd, send_last, sent,
                   accepted, delivered, released>>
    /\ UNCHANGED <<gcvars, sigvars, regvars, objvars, envelope>>

\* a started system whose actor is sent messages through actor_send with
\* allocated envelopes and through vela_send_message
EnvelopeNext ==
    \/ ActorsInit
    \/ Len(actor) < EnvelopeActors /\ ActorCreate
    \/ ActorsStart
    \/ \E a \in 1..EnvelopeActors :
          (\A m \in DOMAIN envelope : ~envelope[m].frame) /\ Send(a)
    \/ \E a \in 1..EnvelopeActors : VelaSendMessage(a)
    \/ \E m \in MsgIds : Put(m)
    \/ \E m \in MsgIds : VelaReturn(m)
    \/ SchedStep
    \/ SchedBehaviorUndefined

SpecEnvelope == Init /\ [][EnvelopeNext]_vars

\* C37: when the scheduler has dequeued a message that was sent through
\* vela_send_message, its envelope is still valid storage (it outlived the
\* vela_send_message call) and is storage the scheduler may pass to free
\* after the behaviour callback returns.
C37_EnvelopeOutlivesSend ==
    (sched.pc = "behavior" /\ sched.message \in DOMAIN envelope) =>
        /\ EnvelopeValid(sched.message)
        /\ EnvelopeReleasable(sched.message)

DestroyActors == 1

\* actor_schedule goes on with an actor that actor_destroy has freed: it
\* locks a destroyed mutex in freed memory and reads a freed actor.  The
\* scheduler thread is lost to the undefined behaviour.
SchedUndefined ==
    /\ sched.pc \in {"get", "get_wait", "behavior"}
    /\ ~SchedDefined
    /\ sched' = [sched EXCEPT !.pc = "undefined"]
    /\ UNCHANGED <<actor_system, actor, mq, ctl, worker, snd, send_last, sent,
                   accepted, delivered, released>>
    /\ UNCHANGED <<gcvars, sigvars, regvars, objvars, envelope>>

\* a started system on which a thread calls actor_destroy while the
\* scheduler runs and senders send
DestroyNext ==
    \/ ActorsInit
    \/ Len(actor) < DestroyActors /\ ActorCreate
    \/ ActorsStart
    \/ \E a \in 1..DestroyActors : ActorDestroy(a)
    \/ DestroyCheck
    \/ DestroyGet
    \/ SchedStep
    \/ SchedUndefined
    \/ \E a \in 1..DestroyActors : Send(a)
    \/ \E m \in MsgIds : Put(m)
    \/ \E m \in MsgIds, result \in BOOLEAN : PutUndefined(m, result)

SpecDestroy == Init /\ [][DestroyNext]_vars

\* C40: with actor_destroy called on an actor of a running system, the
\* scheduler thread is never inside actor_schedule for that actor (about to
\* lock its mailbox, waiting on it, or about to call the behaviour) after the
\* actor and its mailbox have been released, and no sender is left waiting
\* on the destroyed mailbox, in any interleaving of the destroying thread,
\* the scheduler and the senders.
C40_DestroyWhileRunningSafe ==
    /\ sched.pc \in {"get", "get_wait", "behavior"} => SchedDefined
    /\ \A m \in InFlight :
          snd[m].pc = "put_wait" => ~mq[snd[m].to].destroyed

(***************************************************************************)
(* signal_destroy on a signal of a dependency graph.                       *)
(***************************************************************************)

\* the signals signal_destroy has not been called on
Remaining == {x \in Handles : ~sig[x].dependents_freed}

\* signal_destroy(signal) by a caller that holds the handle
SignalDestroy(signal) ==
    /\ signals_state.init
    /\ SigSet(signal_destroy(SigState, signal), "signal_destroy", signal, 0)

\* signal_mark_dirty(signal) reads the dependents array of every signal it
\* appends to the dirty list: one of them was released by signal_destroy
MarkReadsReleased(signal) ==
    LET after == signal_mark_dirty(SigState, signal).st.dirty_signals
    IN \E x \in SeqToSet(after) \ SeqToSet(signals_state.dirty_signals) :
           sig[x].dependents_freed

\* signal_mark_dirty that reads a released dependents array: the array may
\* still hold what it held (SignalMarkDirty), or the call is lost
SignalMarkDirtyUndefined(signal) ==
    /\ signals_state.init
    /\ MarkReadsReleased(signal)
    /\ SigSet(SigState, "signal_mark_dirty_ub", signal, 0)

\* a dependency graph is built, signals of it are destroyed and the
\* remaining ones are marked dirty
DestroySignalNext ==
    \/ SignalsInit
    \/ SignalCreateUpTo(PropSignals)
    \/ \E src \in Remaining : ComputedCreateUpTo(PropSignals, src)
    \/ \E signal, dependent \in Remaining :
           AddDependentUpTo(MarkEdges, signal, dependent)
    \/ \E signal \in Remaining : SignalDestroy(signal)
    \/ \E signal \in Remaining : SignalMarkDirty(signal)
    \/ \E signal \in Remaining : SignalMarkDirtyUndefined(signal)
    \/ SignalsPropagate

SpecDestroySignal == Init /\ [][DestroySignalNext]_vars

\* C38: once signal_destroy(d) has returned, d is not in the registry, not
\* in the dirty list and not in the dependents list of any remaining signal,
\* so that no later call on a remaining signal reaches d.
C38_DestroyedSignalUnreachable ==
    \A d \in Handles \ Remaining :
        /\ d \notin SeqToSet(signals_state.all_signals)
        /\ d \notin SeqToSet(signals_state.dirty_signals)
        /\ \A x \in Remaining : d \notin SeqToSet(sig[x].dependents)

(***************************************************************************)
(* The registry and the dirty list beyond their first 64 slots.            *)
(***************************************************************************)

CapSignals == 65

\* signal_mark_dirty(signal) stores into dirty_signals[dirty_count] without
\* growing the array, and the array has no such slot
DirtyWriteOutside(signal) ==
    /\ IndexOf(signals_state.dirty_signals, signal, 1) = 0
    /\ Len(signals_state.dirty_signals) < signals_state.signal_capacity
    /\ Len(signals_state.dirty_signals) >= signals_state.dirty_slots

\* the store past the end of the dirty array may land in memory the program
\* goes on with (SignalMarkDirty), or the call is lost
SignalMarkDirtyOutside(signal) ==
    /\ signals_state.init
    /\ DirtyWriteOutside(signal)
    /\ SigSet(SigState, "signal_mark_dirty_ub", signal, 0)

\* signals are created without dependents and marked dirty in the order of
\* their creation
CapacityNext ==
    \/ SignalsInit
    \/ SignalCreateUpTo(CapSignals)
    \/ \E signal \in Handles :
          /\ signal = Len(signals_state.dirty_signals) + 1
          /\ SignalMarkDirty(signal)
    \/ \E signal \in Handles :
          /\ signal = Len(signals_state.dirty_signals) + 1
          /\ SignalMarkDirtyOutside(signal)

SpecCapacity == Init /\ [][CapacityNext]_vars

\* C35: after any sequence of signal creations and signal_mark_dirty calls,
\* dirty_count is at most the number of slots allocated for the dirty list
\* and signal_count at most the number of slots allocated for the registry;
\* both arrays have at least the 64 slots they start with.
C35_CountsWithinSlots ==
    signals_state.init =>
        /\ Len(signals_state.dirty_signals) <= signals_state.dirty_slots
        /\ Len(signals_state.all_signals) <= signals_state.registry_slots
        /\ signals_state.dirty_slots >= InitialSignalCapacity
        /\ signals_state.registry_slots >= InitialSignalCapacity

(***************************************************************************)
(* signal_set on the source of an acyclic graph of computed signals.       *)
(***************************************************************************)

GraphSignals == 3
GraphEdges == 3

\* dependency graphs are built, with edges from a signal to computed signals
\* created after it, and their sources set; signal_mark_dirty is also called
\* on its own on a computed signal, which leaves entries in the dirty list
GraphNext ==
    \/ SignalsInit
    \/ SignalCreateUpTo(GraphSignals)
    \/ \E src \in Handles : ComputedCreateUpTo(GraphSignals, src)
    \/ \E signal, dependent \in Handles :
           /\ signal < dependent /\ sig[dependent].is_computed
           /\ AddDependentUpTo(GraphEdges, signal, dependent)
    \/ \E signal \in Handles, value \in SignalValues : SignalSet(signal, value)
    \/ \E signal \in Handles :
           /\ signals_state.dirty_signals = <<>>
           /\ sig[signal].is_computed
           /\ SignalMarkDirty(signal)

SpecGraph == Init /\ [][GraphNext]_vars

\* every signal a compute function reads has the reader in its dependents
\* list, and the lists hold no cycle
RegisteredAcyclic ==
    /\ \A c \in Handles :
          sig[c].compute_fn.kind = "twice" =>
              c \in SeqToSet(sig[sig[c].compute_fn.src].dependents)
    /\ \A x \in Handles : ~OnCycle(x)

\* C34: on an acyclic dependency graph whose edges are all registered with
\* signal_add_dependent and whose functions read their inputs through
\* signal_get, when signal_set(s, v) returns after a call made with an empty
\* dirty list, every computed signal that depends on s, directly or through
\* other computed signals, holds the value its function yields on the current
\* values of its inputs, whatever the order of the dirty list was.
C34_SetLeavesGraphFresh ==
    [][(/\ sigvars' # sigvars
        /\ sig_last'.op = "signal_set"
        /\ ~sig[sig_last'.arg].is_computed
        /\ signals_state.dirty_signals = <<>>
        /\ RegisteredAcyclic) =>
          \A c \in ReachableFrom({sig_last'.arg}, Len(sig)) :
              sig'[c].is_computed =>
                  /\ sig'[c].value = Fresh(sig', c)
                  /\ ~sig'[c].needs_recompute]_vars

\* a signal_set has run the function of a signal that reads another computed
\* signal before the pass reached that one: the dependent came first in the
\* dirty list and its input was recomputed by the read
C34_Witness ==
    /\ sig_last.op = "signal_set"
    /\ Len(sig_last.calls) = 2
    /\ sig[sig_last.calls[1]].compute_fn = Twice(sig_last.calls[2])
    /\ sig[sig_last.calls[1]].value = (4 * sig[sig_last.arg].value) % Word
    /\ RegisteredAcyclic

(***************************************************************************)
(* signal_set called from a compute function: the nested propagation.      *)
(***************************************************************************)

NestSignals == 4
NestEdges == 2

\* computed_create of the function that sets target, while fewer than limit
\* signals
SetterCreateUpTo(limit, target) ==
    /\ signals_state.init
    /\ Len(sig) < limit
    /\ LET r == computed_create(SigState, Setter(target))
       IN SigSet(r.S, "computed_create", target, r.ret)

\* graphs with a computed signal whose function sets a source are built,
\* with edges from a signal to computed signals created after it; sources
\* are set, signals marked dirty and the dirty list propagated
NestedNext ==
    \/ SignalsInit
    \/ SignalCreateUpTo(NestSignals)
    \/ \E src \in Handles : ComputedCreateUpTo(NestSignals, src)
    \/ \E target \in Handles :
           /\ ~sig[target].is_computed
           /\ SetterCreateUpTo(NestSignals, target)
    \/ \E signal, dependent \in Handles :
           /\ signal < dependent /\ sig[dependent].is_computed
           /\ AddDependentUpTo(NestEdges, signal, dependent)
    \/ \E signal \in Handles : SignalSet(signal, 5)
    \/ \E signal \in Handles :
           /\ signals_state.dirty_signals = <<>>
           /\ SignalMarkDirty(signal)
    \/ SignalsPropagate

SpecNested == Init /\ [][NestedNext]_vars

\* the entries of the log for a signal_set made while a propagation ran
NestedSets(log) == {k \in 1..Len(log) : log[k].running}

\* the signals the set of entry e appended to the dirty list
Appended(e) ==
    {e.after[k] : k \in (Len(e.before) + 1)..Len(e.after)}

\* the function of x was run after the set of entry e in the call with the
\* invocations calls
RanAfter(calls, e, x) ==
    \E j \in (e.calls_after + 1)..Len(calls) : calls[j] = x

\* the set of entry e ran no function and left the dirty list it found in
\* place: its signals_propagate_changes returned at once
ReturnedAtOnce(e) ==
    /\ e.calls_after = e.calls_before
    /\ Len(e.after) >= Len(e.before)
    /\ SubSeq(e.after, 1, Len(e.before)) = e.before

\* C31: a signals_propagate_changes call made while a propagation is
\* running returns at once, recomputing nothing and leaving the dirty list;
\* every signal the nested signal_set marks dirty (the computed signals it
\* flags) is appended to the dirty list and is processed by the outer pass
\* before that clears the list.
C31_NestedMarkedAreProcessed ==
    [][(sigvars' # sigvars) =>
          \A k \in NestedSets(sig_last'.nested) :
              LET e == sig_last'.nested[k]
              IN /\ ReturnedAtOnce(e)
                 /\ signals_state'.dirty_signals = <<>>
                 /\ \A x \in e.flagged :
                       /\ x \in Appended(e)
                       /\ RanAfter(sig_last'.calls, e, x)]_vars

\* what holds of a nested set: its propagation returns at once, every
\* computed signal it appends to the dirty list has its function run later
\* in the outer pass, which then clears the list, and a signal it flags
\* without appending it was in the dirty list already
NestedAppendedAreProcessed ==
    [][(sigvars' # sigvars) =>
          \A k \in NestedSets(sig_last'.nested) :
              LET e == sig_last'.nested[k]
              IN /\ ReturnedAtOnce(e)
                 /\ signals_state'.dirty_signals = <<>>
                 /\ ~signals_state'.propagation_running
                 /\ \A x \in Appended(e) :
                       sig'[x].is_computed =>
                           RanAfter(sig_last'.calls, e, x)
                 /\ \A x \in e.flagged \ Appended(e) :
                       x \in SeqToSet(e.before)]_vars

\* a signal_set made by a compute function during a propagation has appended
\* its target and a computed dependent of it, and the outer pass has run the
\* function of that dependent
NestedAppendedWitness ==
    /\ sig_last.op = "signal_set"
    /\ \E k \in NestedSets(sig_last.nested) :
          LET e == sig_last.nested[k]
          IN \E x \in Appended(e) :
                /\ sig[x].is_computed
                /\ RanAfter(sig_last.calls, e, x)


====
